---------------------------- MODULE Spec2Model ----------------------------
(***************************************************************************)
(* Model of the message-to-record extraction pipeline and of the risk      *)
(* simulator of analise-sinais-trading (app.py, validacao_horarios.py,     *)
(* gestao_risco.py).                                                       *)
(*                                                                         *)
(* Text is a sequence of one-character strings.  The three check glyphs    *)
(* and the three superscript digits are written "<ok>", "<fail>", "<draw>" *)
(* and "<sup1>", "<sup2>", "<sup3>".                                       *)
(*                                                                         *)
(* Money is an integer count of 1/1000 of a currency unit and a payout is  *)
(* an integer count of 1/10000 (0.87 is 8700), so the arithmetic of the    *)
(* stake ladder is exact decimal arithmetic; the binary rounding of the    *)
(* program's floats is not modelled.                                       *)
(***************************************************************************)
EXTENDS Integers, Sequences, FiniteSets, TLC

VARIABLES
    pc,            \* position in the run
    messages,      \* json_data["messages"]
    idx,           \* index of the next message / record of the running loop
    signals,       \* app.py extract_records: signals
    resolved,      \* app.py extract_records: resolved
    pg_signals,    \* validacao_horarios._extract_records: signals
    pg_records,    \* validacao_horarios._extract_records: records
    records,       \* gestao_risco._extract_records: records
    equity,        \* gestao_risco.simulate_equity_curve: equity
    current,       \* gestao_risco.simulate_equity_curve: current
    total_profit,  \* app.py summarize_resolved: total_profit
    peak,          \* gestao_risco.render_from_json: peak
    max_dd,        \* gestao_risco.render_from_json: max_dd
    max_dd_pct,    \* gestao_risco.render_from_json: max_dd_pct
    min_balance,   \* gestao_risco.render_from_json: min_balance
    call,          \* arguments of one call of the profit functions
    ret            \* what the two profit functions returned for `call`

vars == <<pc, messages, idx, signals, resolved, pg_signals, pg_records, records,
          equity, current, total_profit, peak, max_dd, max_dd_pct, min_balance,
          call, ret>>

(***************************************************************************)
(* Bounds of the model.                                                    *)
(***************************************************************************)
MaxMsgs == 3
MaxRecs == 3
MaxLadder == 3

(***************************************************************************)
(* Characters and character classes.                                       *)
(***************************************************************************)
\* None where a string is expected, and None where a payout is expected (a
\* payout that is present is the one-element sequence of its value)
None == <<"<None>">>
NoPayout == <<>>

LowerLetters == <<"a","b","c","d","e","f","g","h","i","j","k","l","m",
                  "n","o","p","q","r","s","t","u","v","w","x","y","z">>
UpperLetters == <<"A","B","C","D","E","F","G","H","I","J","K","L","M",
                  "N","O","P","Q","R","S","T","U","V","W","X","Y","Z">>
Letters == {LowerLetters[k] : k \in 1..26} \cup {UpperLetters[k] : k \in 1..26}
Digits == {"0","1","2","3","4","5","6","7","8","9"}

CheckGlyphs == {"<ok>", "<fail>", "<draw>"}
SupClass == {"<sup1>", "<sup2>", "<sup3>"} \cup Digits
PairClass == Letters \cup Digits \cup {"-", "_"}
WordClass == Letters \cup Digits \cup {"_"}
FloatClass == Digits \cup {"."}
Whitespace == {" ", "\n", "\t"}

UpperChar(c) ==
    IF \E k \in 1..26 : LowerLetters[k] = c
    THEN UpperLetters[CHOOSE k \in 1..26 : LowerLetters[k] = c]
    ELSE c

Upper(s) == [k \in 1..Len(s) |-> UpperChar(s[k])]

DigitVal(c) == CHOOSE n \in 0..9 : <<"0","1","2","3","4","5","6","7","8","9">>[n + 1] = c

\* the element of a set of one element
Only(S) == CHOOSE x \in S : TRUE

SetMin(S) == CHOOSE x \in S : \A y \in S : x <= y
SetMax(S) == CHOOSE x \in S : \A y \in S : x >= y

\* The index after the longest run of characters of class C that starts at i.
RunEnd(s, i, C) ==
    LET stops == {j \in i..Len(s) : s[j] \notin C}
    IN  IF stops = {} THEN Len(s) + 1 ELSE SetMin(stops)

\* Does t occur in s at index i?  (regex letters match case-insensitively)
AtCI(s, i, t) ==
    /\ i + Len(t) - 1 <= Len(s)
    /\ \A k \in 1..Len(t) : UpperChar(s[i + k - 1]) = UpperChar(t[k])

At(s, i, t) ==
    /\ i + Len(t) - 1 <= Len(s)
    /\ \A k \in 1..Len(t) : s[i + k - 1] = t[k]

Contains(s, t) == \E i \in 1..Len(s) : At(s, i, t)

\* str.strip()
Strip(s) ==
    LET keep == {j \in 1..Len(s) : s[j] \notin Whitespace}
    IN  IF keep = {} THEN <<>> ELSE SubSeq(s, SetMin(keep), SetMax(keep))

\* str.splitlines(): the lines of s, without a last empty line
RECURSIVE SplitLines(_)
SplitLines(s) ==
    IF s = <<>> THEN <<>>
    ELSE LET nls == {j \in 1..Len(s) : s[j] = "\n"}
             e == IF nls = {} THEN Len(s) + 1 ELSE SetMin(nls)
         IN  <<SubSeq(s, 1, e - 1)>> \o SplitLines(SubSeq(s, e + 1, Len(s)))

\* " ".join(lines)
RECURSIVE JoinSpace(_)
JoinSpace(lines) ==
    IF lines = <<>> THEN <<>>
    ELSE IF Len(lines) = 1 THEN lines[1]
    ELSE lines[1] \o <<" ">> \o JoinSpace(Tail(lines))

\* only the first line kept
OneLine_FirstLine(text) ==
    IF SplitLines(text) = <<>> THEN <<>> ELSE Strip(SplitLines(text)[1])

\* one_line = " ".join(text.splitlines()).strip()
OneLine(text) == Strip(JoinSpace(SplitLines(text)))


(***************************************************************************)
(* RESOLVED_RE and the open-signal patterns.  A position is the index of   *)
(* the next character to read; 0 is "no match".                            *)
(***************************************************************************)
SkipWs(s, i) == RunEnd(s, i, Whitespace)

\* \s*-\s*
SepDash(s, i) ==
    LET j == SkipWs(s, i)
    IN  IF j <= Len(s) /\ s[j] = "-" THEN SkipWs(s, j + 1) ELSE 0

\* \d{2}:\d{2}:\d{2}
TimeAt(s, i) ==
    /\ i + 7 <= Len(s)
    /\ \A k \in {0, 1, 3, 4, 6, 7} : s[i + k] \in Digits
    /\ s[i + 2] = ":" /\ s[i + 5] = ":"

\* \w+ : the greedy run (a shorter run is followed by a word character, which
\* neither \s nor "-" matches)
WordEnd(s, i) ==
    LET e == RunEnd(s, i, WordClass) IN IF e > i THEN e ELSE 0

ResultTokens == {<<"W","I","N">>, <<"L","O","S","S">>, <<"D","O","J","I">>}

NoMatch == [ok |-> FALSE]

\* \s*-\s*(time)\s*-\s*(tf)\s*-\s*(dir)\s*-\s*(result)$ read from index p.
\* Each stage is the set (empty or of one element) of the positions read so
\* far: <<start of time, start of tf, end of tf, start of dir, end of dir,
\* start of result>>.
TailTime(s, p) ==
    {<<t0>> : t0 \in {SepDash(s, p)} \ {0}}

TailTf(s, p) ==
    UNION {{<<x[1], t1>> :
               t1 \in {IF TimeAt(s, x[1]) THEN SepDash(s, x[1] + 8) ELSE 0} \ {0}} :
           x \in TailTime(s, p)}

TailTfEnd(s, p) ==
    UNION {{<<x[1], x[2], f1>> : f1 \in {WordEnd(s, x[2])} \ {0}} :
           x \in TailTf(s, p)}

TailDir(s, p) ==
    UNION {{<<x[1], x[2], x[3], d0>> : d0 \in {SepDash(s, x[3])} \ {0}} :
           x \in TailTfEnd(s, p)}

TailDirEnd(s, p) ==
    UNION {{<<x[1], x[2], x[3], x[4], d1>> : d1 \in {WordEnd(s, x[4])} \ {0}} :
           x \in TailDir(s, p)}

TailResult(s, p) ==
    UNION {{<<x[1], x[2], x[3], x[4], x[5], r0>> :
               r0 \in {SepDash(s, x[5])} \ {0}} :
           x \in TailDirEnd(s, p)}

\* the matches of the rest of the pattern from index p, at most one
ResolvedTail(s, p) ==
    {[end |-> p,
      time |-> SubSeq(s, x[1], x[1] + 7),
      tf |-> SubSeq(s, x[2], x[3] - 1),
      dir |-> SubSeq(s, x[4], x[5] - 1),
      result |-> SubSeq(s, x[6], Len(s))] :
     x \in {y \in TailResult(s, p) : Upper(SubSeq(s, y[6], Len(s))) \in ResultTokens}}

\* (?P<pair>[A-Z0-9\-\_]+(?:-OTC)?) read from index q, then the rest: the
\* longest pair after which the rest matches (greedy, with backtracking).
\* "-OTC" is made of pair characters, so the optional group adds no end.
\* The set of the match, empty or of one element.
ResolvedFromPair(s, q, sup) ==
    {[ok |-> TRUE, sup |-> sup, pair |-> SubSeq(s, q, t.end - 1),
      time |-> t.time, tf |-> t.tf, dir |-> t.dir, result |-> t.result] :
     t \in {u \in UNION {ResolvedTail(s, p) : p \in (q + 1)..RunEnd(s, q, PairClass)} :
               \A v \in UNION {ResolvedTail(s, p) : p \in (u.end + 1)..RunEnd(s, q, PairClass)} :
                   v.end <= u.end}}

\* RESOLVED_RE.match(s): the optional superscript is tried first as present,
\* then as absent.
ResolvedMatch(s) ==
    IF Len(s) = 0 \/ s[1] \notin CheckGlyphs THEN NoMatch
    ELSE Only({IF withSup # {} THEN Only(withSup)
               ELSE Only({IF without # {} THEN Only(without) ELSE NoMatch :
                          without \in {ResolvedFromPair(s, SkipWs(s, 2), <<>>)}}) :
               withSup \in {IF Len(s) >= 2 /\ s[2] \in SupClass
                            THEN ResolvedFromPair(s, SkipWs(s, 3), <<s[2]>>)
                            ELSE {}}})

\* the superscripts alone, the ASCII digits left out
sup_to_level_SuperscriptOnly(s) ==
    IF s = <<"<sup1>">> THEN 1
    ELSE IF s = <<"<sup2>">> THEN 2
    ELSE IF s = <<"<sup3>">> THEN 3
    ELSE 0

\* SUPERSCRIPT_MAP.get(s, 0), 0 for the empty string
sup_to_level(s) ==
    IF s = <<>> THEN 0
    ELSE IF s \in {<<"<sup1>">>, <<"1">>} THEN 1
    ELSE IF s \in {<<"<sup2>">>, <<"2">>} THEN 2
    ELSE IF s \in {<<"<sup3>">>, <<"3">>} THEN 3
    ELSE 0

(***************************************************************************)
(* The open-signal patterns (app.py parse_signal_block and the first pass  *)
(* of the page modules): re.search finds the leftmost place that matches.  *)
(***************************************************************************)
K_Ativo == <<"A","t","i","v","o",":">>
K_Payout == <<"P","a","y","o","u","t",":">>
K_Hor == <<"H","o","r">>
K_rio == <<"r","i","o",":">>

\* re.search(r"Ativo:\s*([A-Z0-9\-\_]+(?:-OTC)?)", text, re.IGNORECASE)
SearchPair(s) ==
    LET hits == {i \in 1..Len(s) :
                    /\ AtCI(s, i, K_Ativo)
                    /\ RunEnd(s, SkipWs(s, i + 6), PairClass) > SkipWs(s, i + 6)}
    IN  IF hits = {} THEN None
        ELSE LET q == SkipWs(s, SetMin(hits) + 6)
             IN  SubSeq(s, q, RunEnd(s, q, PairClass) - 1)

\* re.search(r"Hor[aá]rio:\s*(\d{2}:\d{2}:\d{2})", text, re.IGNORECASE)
SearchTime(s) ==
    LET hits == {i \in 1..Len(s) :
                    /\ AtCI(s, i, K_Hor)
                    /\ i + 3 <= Len(s) /\ s[i + 3] \in {"a", "A", "<aacute>"}
                    /\ AtCI(s, i + 4, K_rio)
                    /\ TimeAt(s, SkipWs(s, i + 8))}
    IN  IF hits = {} THEN None
        ELSE LET q == SkipWs(s, SetMin(hits) + 8) IN SubSeq(s, q, q + 7)

\* re.search(r"Payout:\s*([\d\.]+)\s*%", text, re.IGNORECASE)
SearchPayout(s) ==
    LET PctAfter(i) ==
            LET q == SkipWs(s, i + 7)
                e == RunEnd(s, q, FloatClass)
                j == SkipWs(s, e)
            IN  e > q /\ j <= Len(s) /\ s[j] = "%"
        hits == {i \in 1..Len(s) : AtCI(s, i, K_Payout) /\ PctAfter(i)}
    IN  IF hits = {} THEN None
        ELSE LET q == SkipWs(s, SetMin(hits) + 7)
             IN  SubSeq(s, q, RunEnd(s, q, FloatClass) - 1)

RECURSIVE IntOf(_)
IntOf(ds) ==
    IF ds = <<>> THEN 0
    ELSE IntOf(SubSeq(ds, 1, Len(ds) - 1)) * 10 + DigitVal(ds[Len(ds)])

\* float(t) / 100.0 as a count of 1/10000, or no payout where float(t) raises
\* ValueError (no digit, or more than one "."); decimals past the second
\* are dropped.
PayoutOf(t) ==
    LET dots == {j \in 1..Len(t) : t[j] = "."}
    IN  IF Cardinality(dots) > 1 \/ Len(t) = Cardinality(dots) THEN NoPayout
        ELSE IF dots = {} THEN <<IntOf(t) * 100>>
        ELSE LET d == SetMin(dots)
                 frac == SubSeq(t \o <<"0", "0">>, d + 1, d + 2)
             IN  <<IntOf(SubSeq(t, 1, d - 1)) * 100 + IntOf(frac)>>

\* parse_signal_block(text): an absent key is None
parse_signal_block(text) ==
    Only({[pair |-> SearchPair(text),
           time |-> SearchTime(text),
           payout |-> IF m = None THEN NoPayout ELSE PayoutOf(m)] :
          m \in {SearchPayout(text)}})

\* "Ativo:" in text or "Payout:" in text
IsSignalText(text) == Contains(text, K_Ativo) \/ Contains(text, K_Payout)

\* dict.get(key) of the payout lookup, and its update
Lookup(tbl, key) == IF key \in DOMAIN tbl THEN tbl[key] ELSE NoPayout

Store(tbl, key, v) ==
    [k \in DOMAIN tbl \cup {key} |-> IF k = key THEN v ELSE tbl[k]]

EmptyTable == [k \in {} |-> NoPayout]

\* int(time.split(":")[0])
HourOf(time) ==
    LET colons == {j \in 1..Len(time) : time[j] = ":"}
        e == IF colons = {} THEN Len(time) + 1 ELSE SetMin(colons)
    IN  IntOf(SubSeq(time, 1, e - 1))

(***************************************************************************)
(* The profit functions and the constants of the risk page.                *)
(***************************************************************************)
MoneyScale == 10 * 100         \* money: 1/1000 of a currency unit
PayoutScale == 100 * 100       \* payout: 0.85 is 8500

capital_inicial == 500 * MoneyScale
payout_minimo == 8500
stake_c1_g0 == 2000
stake_c1_g1 == 4300
stake_c1_g2 == 9240
stakes_c1 == <<stake_c1_g0, stake_c1_g1, stake_c1_g2>>

\* the defaults of build_resumo_params_from_json
default_stakes == <<2000, 4300, 9240>>
default_payout == 8500

Min2(a, b) == IF a <= b THEN a ELSE b

\* a slice sum that keeps only the last stake of the slice
SumFirst_LastOnly(stakes, n) == IF n <= 0 THEN 0 ELSE stakes[n]

\* sum(stakes[:n])
RECURSIVE SumFirst(_, _)
SumFirst(stakes, n) ==
    IF n <= 0 THEN 0 ELSE SumFirst(stakes, n - 1) + stakes[n]

\* stake * payout
Pays(stake, payout) == (stake * payout) \div PayoutScale

\* a level past the ladder priced as level 0
ClampLevel_ToFirst(gale_level, stakes) ==
    IF gale_level > Len(stakes) - 1 THEN 0 ELSE gale_level

\* level = min(gale_level, len(stakes) - 1)
ClampLevel(gale_level, stakes) == Min2(gale_level, Len(stakes) - 1)

calculate_profit(result, gale_level, stakes, payout) ==
    IF result = "DOJI" THEN 0
    ELSE LET level == ClampLevel(gale_level, stakes)
         IN  IF result = "WIN"
             THEN IF level = 0
                  THEN Pays(stakes[1], payout)
                  ELSE (0 - SumFirst(stakes, level)) + Pays(stakes[level + 1], payout)
             ELSE 0 - SumFirst(stakes, level + 1)

\* payout = rec.get("payout") or default_payout
EffectivePayout(rec, dflt) ==
    IF rec.payout = NoPayout \/ rec.payout = <<0>> THEN dflt ELSE rec.payout[1]

compute_profit_for_record(rec, stakes, dflt) ==
    LET payout == EffectivePayout(rec, dflt)
        level == ClampLevel(rec.gale_level, stakes)
    IN  IF rec.result = "DOJI" THEN 0
        ELSE IF rec.result = "WIN"
             THEN IF level = 0
                  THEN Pays(stakes[1], payout)
                  ELSE (0 - SumFirst(stakes, level)) + Pays(stakes[level + 1], payout)
        ELSE IF rec.result = "LOSS" THEN 0 - SumFirst(stakes, level + 1)
        ELSE 0

(***************************************************************************)
(* Records built from a match.                                             *)
(***************************************************************************)
\* every token but WIN taken as a loss
ResultOf_WinElseLoss(raw) ==
    IF Upper(Strip(raw)) = <<"W","I","N">> THEN "WIN" ELSE "LOSS"

\* "DOJI" if result_raw == "DOJI" else ("WIN" if result_raw == "WIN" else "LOSS")
ResultOf(raw) ==
    LET up == Upper(Strip(raw))
    IN  IF up = <<"D","O","J","I">> THEN "DOJI"
        ELSE IF up = <<"W","I","N">> THEN "WIN"
        ELSE "LOSS"

\* app.py keeps any other token as it is; RESOLVED_RE admits no other token
AppResultOf(raw) ==
    LET up == Upper(Strip(raw))
    IN  IF up = <<"D","O","J","I">> THEN "DOJI"
        ELSE IF up = <<"W","I","N">> THEN "WIN"
        ELSE IF up = <<"L","O","S","S">> THEN "LOSS"
        ELSE "OTHER"

\* the dict appended by app.py extract_records; the messages of this model
\* carry no timestamp key and a resolved line is no date, so msg_date is None
AppRecord(m, tbl) ==
    [pair |-> Strip(m.pair), time |-> Strip(m.time), hour |-> HourOf(Strip(m.time)),
     tf |-> Strip(m.tf), direction |-> Strip(m.dir),
     result |-> AppResultOf(m.result), gale_level |-> sup_to_level(m.sup),
     payout |-> Lookup(tbl, <<Strip(m.pair), Strip(m.time)>>),
     msg_date |-> None]

\* the dict appended by validacao_horarios._extract_records
PageRecord(m, tbl) ==
    [pair |-> Strip(m.pair), time |-> Strip(m.time), hour |-> HourOf(Strip(m.time)),
     tf |-> Strip(m.tf), direction |-> Strip(m.dir),
     result |-> ResultOf(m.result), gale_level |-> sup_to_level(m.sup),
     payout |-> Lookup(tbl, <<Strip(m.pair), Strip(m.time)>>)]

\* the dict appended by gestao_risco._extract_records
RiskRecord(m) ==
    [result |-> ResultOf(m.result), gale_level |-> sup_to_level(m.sup)]

(***************************************************************************)
(* Messages.  A message is a mapping from keys to values.                  *)
(***************************************************************************)
Get(msg, key) == IF key \in DOMAIN msg THEN msg[key] ELSE None

\* text = msg.get("text", "")
AppText(msg) == IF "text" \in DOMAIN msg THEN msg["text"] ELSE <<>>

TextKeys == <<"text", "message.text", "message", "message_text">>

\* _get_text_from_msg(msg)
get_text_from_msg(msg) ==
    LET good == {k \in 1..Len(TextKeys) :
                    Get(msg, TextKeys[k]) # None /\ Strip(Get(msg, TextKeys[k])) # <<>>}
        t == Get(msg, "text")
        v == IF t # None /\ t # <<>> THEN t ELSE Get(msg, "message")
    IN  IF good # {} THEN Get(msg, TextKeys[SetMin(good)])
        ELSE IF v # None THEN v ELSE <<>>

(***************************************************************************)
(* Message texts.                                                          *)
(***************************************************************************)
W_EURUSD_OTC == <<"E","U","R","U","S","D","-","O","T","C">>
W_GBPJPY == <<"G","B","P","J","P","Y">>
W_One == <<"1">>
T_140500 == <<"1","4",":","0","5",":","0","0">>
T_093000 == <<"0","9",":","3","0",":","0","0">>
T_90500 == <<"9",":","0","5",":","0","0">>
T_250500 == <<"2","5",":","0","5",":","0","0">>
W_M1 == <<"M","1">>
W_M5 == <<"M","5">>
W_call == <<"c","a","l","l">>
W_put == <<"p","u","t">>
W_WIN == <<"W","I","N">>
W_loss == <<"l","o","s","s">>
W_Doji == <<"D","o","j","i">>
W_GAIN == <<"G","A","I","N">>
W_Resultado == <<"R","e","s","u","l","t","a","d","o"," ">>
W_ok == <<" ","o","k">>

\* <glyph><sup><gap><pair><sep><time><sep><tf><sep><dir><sep><result>
ResolvedLine(glyph, sup, gap, pair, sep, time, tf, dir, res) ==
    <<glyph>> \o sup \o gap \o pair \o sep \o time \o sep \o tf \o sep \o dir
        \o sep \o res

Spaced == <<" ","-"," ">>
Tight == <<"-">>

\* "✅¹ EURUSD-OTC - 14:05:00 - M1 - call - WIN"
TXT_Win1 ==
    ResolvedLine("<ok>", <<"<sup1>">>, <<" ">>, W_EURUSD_OTC, Spaced, T_140500,
                 W_M1, W_call, W_WIN)

\* a resolved line on two lines, ending in a newline
TXT_Loss2 ==
    <<"<fail>","<sup2>"," ","G","B","P","J","P","Y"," ","-"," ","0","9",":","3",
      "0",":","0","0","\n","-"," ","M","5"," ","-"," ","p","u","t"," ","-"," ","l",
      "o","s","s","\n">>

\* "Ativo: EURUSD-OTC\nHorário: 14:05:00\nPayout: 87%"
TXT_Signal87 ==
    <<"A","t","i","v","o",":"," ","E","U","R","U","S","D","-","O","T","C","\n","H",
      "o","r","<aacute>","r","i","o",":"," ","1","4",":","0","5",":","0","0","\n",
      "P","a","y","o","u","t",":"," ","8","7","%">>

\* "Ativo: EURUSD-OTC\nHorario: 14:05:00"
TXT_SignalNoPayout ==
    <<"A","t","i","v","o",":"," ","E","U","R","U","S","D","-","O","T","C","\n","H",
      "o","r","a","r","i","o",":"," ","1","4",":","0","5",":","0","0">>

TXT_Chatter == <<"b","o","m"," ","d","i","a">>

\* two resolved lines in one message
TXT_TwoLines == TXT_Win1 \o <<"\n">> \o TXT_Win1

\* a resolved line after other text
TXT_Prefixed == W_Resultado \o TXT_Win1

MsgTexts ==
    {TXT_Win1, TXT_Loss2, TXT_Signal87, TXT_SignalNoPayout, TXT_Chatter,
     TXT_TwoLines, TXT_Prefixed}

MsgPool == {[text |-> t] : t \in MsgTexts}

\* The shapes of the single-message runs: every combination of glyph,
\* superscript, gap, instrument, separator, time, result token and junk.
ShapePool ==
    [glyph : {"<ok>", "<fail>", "<draw>", "x"},
     sup : {<<>>, <<"<sup1>">>, <<"<sup2>">>, <<"<sup3>">>, <<"1">>, <<"2">>,
            <<"3">>, <<"4">>},
     gap : {<<>>, <<" ">>},
     pair : {W_EURUSD_OTC, W_One},
     sep : {Spaced, Tight},
     time : {T_140500, T_90500, T_250500},
     res : {W_WIN, W_loss, W_Doji, W_GAIN},
     junk : {"none", "space_before", "newline_after", "text_after"}]

ShapeText(sh) ==
    LET line == ResolvedLine(sh.glyph, sh.sup, sh.gap, sh.pair, sh.sep, sh.time,
                             W_M1, W_call, sh.res)
    IN  CASE sh.junk = "none" -> line
          [] sh.junk = "space_before" -> <<" ">> \o line
          [] sh.junk = "newline_after" -> line \o <<"\n">>
          [] sh.junk = "text_after" -> line \o W_ok

RECURSIVE SeqsUpTo(_, _)
SeqsUpTo(S, n) ==
    IF n = 0 THEN {<<>>}
    ELSE LET shorter == SeqsUpTo(S, n - 1)
         IN  shorter \cup {Append(q, x) : q \in {r \in shorter : Len(r) = n - 1}, x \in S}

(***************************************************************************)
(* The run: app.py builds the summary (extract_records, then the profit    *)
(* sum of summarize_resolved), then the pages extract their own records    *)
(* (validacao_horarios in two passes, gestao_risco in one) and the risk    *)
(* page simulates the equity curve and measures the drawdown.              *)
(***************************************************************************)
NotCalled == <<>>

InitRest ==
    /\ idx = 1
    /\ signals = EmptyTable
    /\ resolved = <<>>
    /\ pg_signals = EmptyTable
    /\ pg_records = <<>>
    /\ equity = <<>>
    /\ current = 0
    /\ total_profit = NotCalled
    /\ peak = 0
    /\ max_dd = 0
    /\ max_dd_pct = 0
    /\ min_balance = 0
    /\ call = <<>>
    /\ ret = [calculate |-> NotCalled, compute |-> NotCalled]

Init ==
    /\ pc = "app"
    /\ messages \in SeqsUpTo(MsgPool, MaxMsgs)
    /\ records = <<>>
    /\ InitRest

InitParse ==
    /\ pc = "app"
    /\ messages \in {<<[text |-> ShapeText(sh)]>> : sh \in ShapePool}
    /\ records = <<>>
    /\ InitRest

\* app.py extract_records, one turn of "for msg in messages"
AppExtractStep ==
    /\ pc = "app"
    /\ idx <= Len(messages)
    /\ \E text \in {AppText(messages[idx])} :
       \E blk \in {parse_signal_block(text)} :
       \E sig \in {IF /\ IsSignalText(text)
                      /\ blk.pair # None /\ blk.time # None /\ blk.payout # NoPayout
                   THEN Store(signals, <<blk.pair, blk.time>>, blk.payout)
                   ELSE signals} :
       \E one_line \in {OneLine(text)} :
       \E m \in {ResolvedMatch(one_line)} :
           /\ signals' = sig
           /\ resolved' = IF m.ok THEN Append(resolved, AppRecord(m, sig))
                          ELSE resolved
    /\ idx' = idx + 1
    /\ UNCHANGED <<pc, messages, pg_signals, pg_records, records, equity, current,
                   total_profit, peak, max_dd, max_dd_pct, min_balance, call, ret>>

\* app.py extract_records returns; summarize_resolved sums the profits
\* (an empty frame returns {} and nothing is summed)
RECURSIVE SumProfits(_, _, _)
SumProfits(recs, stakes, dflt) ==
    IF recs = <<>> THEN 0
    ELSE SumProfits(SubSeq(recs, 1, Len(recs) - 1), stakes, dflt)
         + compute_profit_for_record(recs[Len(recs)], stakes, dflt)

Summarize ==
    /\ pc = "app"
    /\ idx > Len(messages)
    /\ total_profit' = IF resolved = <<>> THEN NotCalled
                       ELSE <<SumProfits(resolved, default_stakes, default_payout)>>
    /\ pc' = "pass1"
    /\ idx' = 1
    /\ UNCHANGED <<messages, signals, resolved, pg_signals, pg_records, records,
                   equity, current, peak, max_dd, max_dd_pct, min_balance, call, ret>>

\* the open signal of a page module's first pass: instrument and time are
\* needed, the payout may be None
PageSignal(text) ==
    Only({[found |-> pair # None /\ time # None,
           key |-> <<Strip(pair), Strip(time)>>,
           payout |-> IF m = None THEN NoPayout ELSE PayoutOf(m)] :
          pair \in {SearchPair(text)}, time \in {SearchTime(text)},
          m \in {SearchPayout(text)}})

\* validacao_horarios._extract_records, one turn of the first loop
PagePass1Step ==
    /\ pc = "pass1"
    /\ idx <= Len(messages)
    /\ \E text \in {get_text_from_msg(messages[idx])} :
       \E s \in {PageSignal(text)} :
           pg_signals' = IF IsSignalText(text) /\ s.found
                         THEN Store(pg_signals, s.key, s.payout)
                         ELSE pg_signals
    /\ idx' = idx + 1
    /\ UNCHANGED <<pc, messages, signals, resolved, pg_records, records, equity,
                   current, total_profit, peak, max_dd, max_dd_pct, min_balance,
                   call, ret>>

\* the first loop ends, the second begins
PagePass1End ==
    /\ pc = "pass1"
    /\ idx > Len(messages)
    /\ pc' = "pass2"
    /\ idx' = 1
    /\ UNCHANGED <<messages, signals, resolved, pg_signals, pg_records, records,
                   equity, current, total_profit, peak, max_dd, max_dd_pct,
                   min_balance, call, ret>>

\* validacao_horarios._extract_records, one turn of the second loop
PagePass2Step ==
    /\ pc = "pass2"
    /\ idx <= Len(messages)
    /\ \E text \in {get_text_from_msg(messages[idx])} :
       \E one_line \in {OneLine(text)} :
       \E m \in {IF text = <<>> THEN NoMatch ELSE ResolvedMatch(one_line)} :
           pg_records' = IF m.ok THEN Append(pg_records, PageRecord(m, pg_signals))
                         ELSE pg_records
    /\ idx' = idx + 1
    /\ UNCHANGED <<pc, messages, signals, resolved, pg_signals, records, equity,
                   current, total_profit, peak, max_dd, max_dd_pct, min_balance,
                   call, ret>>

\* validacao_horarios._extract_records returns
PagePass2End ==
    /\ pc = "pass2"
    /\ idx > Len(messages)
    /\ pc' = "gestao"
    /\ idx' = 1
    /\ UNCHANGED <<messages, signals, resolved, pg_signals, pg_records, records,
                   equity, current, total_profit, peak, max_dd, max_dd_pct,
                   min_balance, call, ret>>

\* gestao_risco._extract_records, one turn of the loop
RiskExtractStep ==
    /\ pc = "gestao"
    /\ idx <= Len(messages)
    /\ \E text \in {get_text_from_msg(messages[idx])} :
       \E one_line \in {OneLine(text)} :
       \E m \in {IF text = <<>> THEN NoMatch ELSE ResolvedMatch(one_line)} :
           records' = IF m.ok THEN Append(records, RiskRecord(m)) ELSE records
    /\ idx' = idx + 1
    /\ UNCHANGED <<pc, messages, signals, resolved, pg_signals, pg_records, equity,
                   current, total_profit, peak, max_dd, max_dd_pct, min_balance,
                   call, ret>>

\* gestao_risco.render_from_json: no record, a warning and return; else
\* simulate_equity_curve starts with equity = [capital]
RiskExtractEnd ==
    /\ pc = "gestao"
    /\ idx > Len(messages)
    /\ IF records = <<>>
       THEN /\ pc' = "nodata"
            /\ UNCHANGED <<equity, current>>
       ELSE /\ pc' = "simulate"
            /\ equity' = <<capital_inicial>>
            /\ current' = capital_inicial
    /\ idx' = 1
    /\ UNCHANGED <<messages, signals, resolved, pg_signals, pg_records, records,
                   total_profit, peak, max_dd, max_dd_pct, min_balance, call, ret>>

\* the balance restarted from the capital at every record
Accumulate_FromCapital(balance, profit) == capital_inicial + profit

\* current += profit
Accumulate(balance, profit) == balance + profit

\* simulate_equity_curve, one turn of "for rec in records"
SimulateStep ==
    /\ pc = "simulate"
    /\ idx <= Len(records)
    /\ LET rec == records[idx]
           profit == calculate_profit(rec.result, rec.gale_level, stakes_c1,
                                      payout_minimo)
       IN  /\ current' = Accumulate(current, profit)
           /\ equity' = Append(equity, Accumulate(current, profit))
    /\ idx' = idx + 1
    /\ UNCHANGED <<pc, messages, signals, resolved, pg_signals, pg_records, records,
                   total_profit, peak, max_dd, max_dd_pct, min_balance, call, ret>>

\* simulate_equity_curve returns; the drawdown pass starts
SimulateEnd ==
    /\ pc = "simulate"
    /\ idx > Len(records)
    /\ pc' = "drawdown"
    /\ idx' = 1
    /\ peak' = capital_inicial
    /\ max_dd' = 0
    /\ max_dd_pct' = 0
    /\ min_balance' = capital_inicial
    /\ UNCHANGED <<messages, signals, resolved, pg_signals, pg_records, records,
                   equity, current, total_profit, call, ret>>

PctScale == 10 * 10            \* a percentage: 1/100 of a percent

\* dd / peak * 100, 0 when peak is not positive
DrawdownPct(dd, pk) == IF pk > 0 THEN (dd * 100 * PctScale) \div pk ELSE 0

\* a peak that never rises
NewPeak_Frozen(balance, pk) == pk

\* if balance > peak: peak = balance
NewPeak(balance, pk) == IF balance > pk THEN balance ELSE pk

\* the last drawdown kept instead of the largest
NewMaxDd_Last(dd, mx) == dd

\* if dd > max_dd: max_dd = dd
NewMaxDd(dd, mx) == IF dd > mx THEN dd ELSE mx

\* the comparison turned round
NewMinBalance_Greater(balance, mn) == IF balance > mn THEN balance ELSE mn

\* if balance < min_balance: min_balance = balance
NewMinBalance(balance, mn) == IF balance < mn THEN balance ELSE mn

\* render_from_json, one turn of "for balance in equity_curve"
DrawdownStep ==
    /\ pc = "drawdown"
    /\ idx <= Len(equity)
    /\ \E balance \in {equity[idx]} :
       \E pk \in {NewPeak(balance, peak)} :
       \E dd \in {pk - balance} :
           /\ peak' = pk
           /\ max_dd' = NewMaxDd(dd, max_dd)
           /\ max_dd_pct' = IF dd > max_dd THEN DrawdownPct(dd, pk) ELSE max_dd_pct
           /\ min_balance' = NewMinBalance(balance, min_balance)
    /\ idx' = idx + 1
    /\ UNCHANGED <<pc, messages, signals, resolved, pg_signals, pg_records, records,
                   equity, current, total_profit, call, ret>>

\* the drawdown pass ends
DrawdownEnd ==
    /\ pc = "drawdown"
    /\ idx > Len(equity)
    /\ pc' = "done"
    /\ UNCHANGED <<messages, idx, signals, resolved, pg_signals, pg_records, records,
                   equity, current, total_profit, peak, max_dd, max_dd_pct,
                   min_balance, call, ret>>

Next ==
    \/ AppExtractStep
    \/ Summarize
    \/ PagePass1Step
    \/ PagePass1End
    \/ PagePass2Step
    \/ PagePass2End
    \/ RiskExtractStep
    \/ RiskExtractEnd
    \/ SimulateStep
    \/ SimulateEnd
    \/ DrawdownStep
    \/ DrawdownEnd

\* the run over the messages of an export
Spec == Init /\ [][Next]_vars

\* the run over one message of every shape
SpecParse == InitParse /\ [][Next]_vars

(***************************************************************************)
(* The risk page over a record list of every shape the extraction can      *)
(* give: render_from_json from the call of simulate_equity_curve on.       *)
(***************************************************************************)
Levels == {0, 1, 2, 3}
Results == {"WIN", "LOSS", "DOJI"}

RecPool == [result : Results, gale_level : Levels]

InitRisk ==
    /\ pc = "simulate"
    /\ messages = <<>>
    /\ records \in SeqsUpTo(RecPool, MaxRecs) \ {<<>>}
    /\ idx = 1
    /\ signals = EmptyTable
    /\ resolved = <<>>
    /\ pg_signals = EmptyTable
    /\ pg_records = <<>>
    /\ equity = <<capital_inicial>>
    /\ current = capital_inicial
    /\ total_profit = NotCalled
    /\ peak = 0
    /\ max_dd = 0
    /\ max_dd_pct = 0
    /\ min_balance = 0
    /\ call = <<>>
    /\ ret = [calculate |-> NotCalled, compute |-> NotCalled]

NextRisk ==
    \/ SimulateStep
    \/ SimulateEnd
    \/ DrawdownStep
    \/ DrawdownEnd

SpecRisk == InitRisk /\ [][NextRisk]_vars

(***************************************************************************)
(* One call of each profit function, over every result, level, ladder and  *)
(* payout.                                                                 *)
(***************************************************************************)
StakeValues == {stake_c1_g0, stake_c1_g1, stake_c1_g2}
Ladders == SeqsUpTo(StakeValues, MaxLadder) \ {<<>>}

CallPool ==
    [result : Results, gale_level : Levels, stakes : Ladders,
     payout : {8500, 9000},                  \* the payout argument / default
     rec_payout : {NoPayout, <<0>>, <<9000>>}] \* the record's own payout

InitProfit ==
    /\ pc = "call"
    /\ call \in CallPool
    /\ ret = [calculate |-> NotCalled, compute |-> NotCalled]
    /\ messages = <<>>
    /\ records = <<>>
    /\ idx = 1
    /\ signals = EmptyTable
    /\ resolved = <<>>
    /\ pg_signals = EmptyTable
    /\ pg_records = <<>>
    /\ equity = <<>>
    /\ current = 0
    /\ total_profit = NotCalled
    /\ peak = 0
    /\ max_dd = 0
    /\ max_dd_pct = 0
    /\ min_balance = 0

\* calculate_profit(result, gale_level, stakes, payout)
CallCalculateProfit ==
    /\ pc = "call"
    /\ ret.calculate = NotCalled
    /\ ret' = [ret EXCEPT !.calculate =
                  <<calculate_profit(call.result, call.gale_level, call.stakes,
                                     call.payout)>>]
    /\ UNCHANGED <<pc, messages, idx, signals, resolved, pg_signals, pg_records,
                   records, equity, current, total_profit, peak, max_dd, max_dd_pct,
                   min_balance, call>>

\* compute_profit_for_record(rec, stakes, default_payout)
CallComputeProfit ==
    /\ pc = "call"
    /\ ret.compute = NotCalled
    /\ ret' = [ret EXCEPT !.compute =
                  <<compute_profit_for_record(
                        [result |-> call.result, gale_level |-> call.gale_level,
                         payout |-> call.rec_payout],
                        call.stakes, call.payout)>>]
    /\ UNCHANGED <<pc, messages, idx, signals, resolved, pg_signals, pg_records,
                   records, equity, current, total_profit, peak, max_dd, max_dd_pct,
                   min_balance, call>>

NextProfit ==
    \/ CallCalculateProfit
    \/ CallComputeProfit

SpecProfit == InitProfit /\ [][NextProfit]_vars

(***************************************************************************)
(* Properties of the profit functions (SpecProfit).                        *)
(***************************************************************************)
\* stakes[a] + ... + stakes[b], counted from 1
RECURSIVE LadderSum(_, _, _)
LadderSum(st, a, b) == IF a > b THEN 0 ELSE st[a] + LadderSum(st, a + 1, b)

\* the profit of the specification for level L (counted from 0) inside the ladder
ExpectedProfit(result, L, st, payout) ==
    CASE result = "DOJI" -> 0
      [] result = "WIN" -> (st[L + 1] * payout) \div PayoutScale - LadderSum(st, 1, L)
      [] result = "LOSS" -> 0 - LadderSum(st, 1, L + 1)

\* the payout compute_profit_for_record prices with
CallRecPayout ==
    IF call.rec_payout \in {NoPayout, <<0>>} THEN call.payout ELSE call.rec_payout[1]

\* C1: for a level L inside the ladder both profit functions return 0 for a
\* DOJI, stake[L] x payout minus the stakes below L for a WIN (stake[0] x
\* payout at level 0), and minus the stakes up to and including L for a LOSS.
C1_ProfitFormula ==
    (pc = "call" /\ call.gale_level < Len(call.stakes)) =>
        /\ ret.calculate # NotCalled =>
               ret.calculate[1] = ExpectedProfit(call.result, call.gale_level,
                                                 call.stakes, call.payout)
        /\ ret.compute # NotCalled =>
               ret.compute[1] = ExpectedProfit(call.result, call.gale_level,
                                               call.stakes, CallRecPayout)

C1_Witness ==
    /\ pc = "call"
    /\ call.result = "WIN" /\ call.gale_level = 2 /\ call.stakes = stakes_c1
    /\ ret.calculate = <<(0 - 6300) + 7854>>
    /\ ret.compute # NotCalled

\* C6: a level at or past the end of the ladder is priced as the last level
\* of the ladder, by both profit functions.
C6_ClampToLastLevel ==
    (pc = "call" /\ call.gale_level >= Len(call.stakes)) =>
        /\ ret.calculate # NotCalled =>
               ret.calculate[1] = ExpectedProfit(call.result, Len(call.stakes) - 1,
                                                 call.stakes, call.payout)
        /\ ret.compute # NotCalled =>
               ret.compute[1] = ExpectedProfit(call.result, Len(call.stakes) - 1,
                                               call.stakes, CallRecPayout)

C6_Witness ==
    /\ pc = "call"
    /\ call.result = "LOSS" /\ call.gale_level = 3 /\ call.stakes = stakes_c1
    /\ ret.calculate = <<0 - 15540>>
    /\ ret.compute = <<0 - 15540>>

(***************************************************************************)
(* Properties of the equity curve and of the drawdown pass (SpecRisk).     *)
(***************************************************************************)
\* the profits of the first k records, as simulate_equity_curve prices them
RECURSIVE ProfitSum(_, _)
ProfitSum(recs, k) ==
    IF k = 0 THEN 0
    ELSE ProfitSum(recs, k - 1)
         + calculate_profit(recs[k].result, recs[k].gale_level, stakes_c1,
                            payout_minimo)

Loss(level) == [result |-> "LOSS", gale_level |-> level]
Win(level) == [result |-> "WIN", gale_level |-> level]

\* C2: the equity curve starts at the capital, has one point per record
\* processed plus one, and its k-th point is the capital plus the profits of
\* the first k records in order; one LOSS at level 2 leaves 484.46.
C2_EquityCurve ==
    pc \in {"simulate", "drawdown", "done"} =>
        /\ equity[1] = capital_inicial
        /\ Len(equity) = (IF pc = "simulate" THEN idx ELSE Len(records) + 1)
        /\ \A k \in 0..(Len(equity) - 1) :
               equity[k + 1] = capital_inicial + ProfitSum(records, k)
        /\ (pc # "simulate" /\ records = <<Loss(2)>>) => equity = <<500000, 484460>>

C2_Witness ==
    /\ pc = "done"
    /\ records = <<Win(0), Loss(2), Win(1)>>
    /\ Len(equity) = 4

\* C3: in and after the drawdown pass the maximum drawdown is >= 0, the
\* minimum balance is <= the initial capital and the first equity point is
\* the initial capital.
C3_DrawdownBounds ==
    pc \in {"drawdown", "done"} =>
        /\ max_dd >= 0
        /\ min_balance <= capital_inicial
        /\ equity[1] = capital_inicial

C3_Witness ==
    /\ pc = "done"
    /\ \E k \in 1..Len(records) : records[k].result = "LOSS"
    /\ \E k \in 1..Len(records) : records[k].result = "WIN"
    /\ min_balance < capital_inicial
    /\ max_dd > 0

\* the highest of the first j points
RunPeak(eq, j) == SetMax({eq[i] : i \in 1..j})

\* the largest decline from a point to a later point
PeakToTrough(eq) ==
    SetMax({eq[p[1]] - eq[p[2]] :
            p \in {q \in (1..Len(eq)) \X (1..Len(eq)) : q[1] <= q[2]}})

\* the first point whose decline from the running peak is d
FirstAt(eq, d) == SetMin({j \in 1..Len(eq) : RunPeak(eq, j) - eq[j] = d})

\* C4: after the drawdown pass max_dd is the largest peak-to-trough decline
\* of the curve, the retained percentage is that decline over the running
\* peak at the first point where it is attained, and min_balance is the
\* lowest point of the curve.
C4_TrueMaxDrawdown ==
    pc = "done" =>
        /\ max_dd = PeakToTrough(equity)
        /\ min_balance = SetMin({equity[i] : i \in 1..Len(equity)})
        /\ max_dd_pct = (max_dd * 100 * PctScale)
                            \div RunPeak(equity, FirstAt(equity, max_dd))

C4_Witness ==
    /\ pc = "done"
    /\ peak > capital_inicial
    /\ max_dd > capital_inicial - min_balance
    /\ max_dd_pct > 0

\* C5: the maximum drawdown depends on the order of the records: two LOSSes
\* then a WIN (all at level 0) lose two stakes from the peak, a LOSS, a WIN
\* and a LOSS lose less, with the same records.
C5_OrderDependent ==
    pc = "done" =>
        /\ records = <<Loss(0), Loss(0), Win(0)>> => max_dd = 2 * stake_c1_g0
        /\ records = <<Loss(0), Win(0), Loss(0)>> =>
               /\ max_dd = 2 * stake_c1_g0 - Pays(stake_c1_g0, payout_minimo)
               /\ max_dd < 2 * stake_c1_g0

C5_Witness ==
    /\ pc = "done"
    /\ records = <<Loss(0), Win(0), Loss(0)>>
    /\ max_dd = 2300

(***************************************************************************)
(* Properties of the extraction and of the run over an export (Spec,       *)
(* SpecParse).                                                             *)
(***************************************************************************)
\* the payout the k-th record carries after correlation, or the default of
\* the risk page when the record has none
RecordPayout(k) ==
    IF pg_records[k].payout # NoPayout THEN pg_records[k].payout[1]
    ELSE payout_minimo

\* C7: every step of the equity curve of the risk page is the profit of its
\* record priced with the record's own payout when an open signal gave it
\* one, and with the default payout only when the record has none.
C7_PerRecordPayout ==
    pc \in {"drawdown", "done"} =>
        \A k \in 1..Len(records) :
            equity[k + 1] - equity[k] =
                calculate_profit(records[k].result, records[k].gale_level,
                                 stakes_c1, RecordPayout(k))

\* the texts of the export that are one resolved line and nothing else
ResolvedTexts == {TXT_Win1, TXT_Loss2}

ExpectedPair(text) == IF text = TXT_Win1 THEN W_EURUSD_OTC ELSE W_GBPJPY

\* the instruments of the resolved lines among the first n messages, in order
RECURSIVE ExpectedPairs(_, _)
ExpectedPairs(msgs, n) ==
    IF n = 0 THEN <<>>
    ELSE IF msgs[n].text \in ResolvedTexts
         THEN Append(ExpectedPairs(msgs, n - 1), ExpectedPair(msgs[n].text))
         ELSE ExpectedPairs(msgs, n - 1)

PairsOf(recs) == [k \in 1..Len(recs) |-> recs[k].pair]

\* the number of messages a loop has read so far
ReadByApp == IF pc = "app" THEN idx - 1 ELSE Len(messages)

ReadByPage ==
    IF pc \in {"app", "pass1"} THEN 0
    ELSE IF pc = "pass2" THEN idx - 1 ELSE Len(messages)

\* C8: a message gives a record exactly when its text, collapsed to one line
\* and trimmed, is a resolved line from its first to its last character (two
\* resolved lines in one message, or a resolved line after other text, give
\* none); each message gives at most one record, so there are never more
\* records than messages read, and the records are in message order.  Both
\* for app.py extract_records and for validacao_horarios._extract_records.
C8_RecordIffAnchoredMatch ==
    /\ \A j \in 1..Len(messages) :
           ResolvedMatch(OneLine(messages[j].text)).ok
               <=> messages[j].text \in ResolvedTexts
    /\ PairsOf(resolved) = ExpectedPairs(messages, ReadByApp)
    /\ PairsOf(pg_records) = ExpectedPairs(messages, ReadByPage)
    /\ Len(resolved) <= ReadByApp
    /\ Len(pg_records) <= ReadByPage

C8_Witness ==
    /\ pc = "gestao"
    /\ messages = <<[text |-> TXT_TwoLines], [text |-> TXT_Loss2],
                    [text |-> TXT_Prefixed]>>
    /\ PairsOf(resolved) = <<W_GBPJPY>>
    /\ PairsOf(pg_records) = <<W_GBPJPY>>

\* the level a character stands for
LevelOfChar(c) ==
    IF c \in {"<sup1>", "1"} THEN 1
    ELSE IF c \in {"<sup2>", "2"} THEN 2
    ELSE IF c \in {"<sup3>", "3"} THEN 3
    ELSE 0

\* the character directly after the check glyph, a space when there is none
AfterGlyph(s) == IF Len(s) >= 2 THEN s[2] ELSE " "

\* the digit after the glyph is the whole instrument: the separator and the
\* time follow it directly
DigitIsInstrument(s) ==
    /\ Len(s) >= 2 /\ s[2] \in Digits
    /\ SepDash(s, 3) # 0 /\ TimeAt(s, SepDash(s, 3))

\* the fields of a record of the one-message runs, as written in the line s
FieldsAsWritten(rec, s) ==
    /\ rec.gale_level \in 0..3
    /\ rec.pair = (IF Contains(s, W_EURUSD_OTC) THEN W_EURUSD_OTC ELSE W_One)
    /\ rec.time = (IF Contains(s, T_140500) THEN T_140500 ELSE T_250500)
    /\ rec.hour = (IF Contains(s, T_140500) THEN 14 ELSE 25)
    /\ rec.tf = W_M1 /\ rec.direction = W_call
    /\ rec.result \in {"WIN", "LOSS", "DOJI"}
    /\ rec.result = (IF Contains(s, W_WIN) THEN "WIN"
                     ELSE IF Contains(s, W_loss) THEN "LOSS" ELSE "DOJI")

\* the record of "<ok><sup1> EURUSD-OTC - 14:05:00 - M1 - call - WIN"
ExampleRecordHolds ==
    messages = <<[text |-> TXT_Win1]>> =>
        /\ Len(resolved) = 1
        /\ resolved[1].pair = W_EURUSD_OTC /\ resolved[1].time = T_140500
        /\ resolved[1].hour = 14 /\ resolved[1].tf = W_M1
        /\ resolved[1].direction = W_call /\ resolved[1].result = "WIN"
        /\ resolved[1].gale_level = 1

\* C9 as stated: the level of a record is the level of the character directly
\* after the check glyph (0 for any other or absent character); the other
\* fields are stored as captured, and the example line gives its record.
C9_LevelFromNextChar ==
    (pc # "app" /\ Len(messages) = 1) =>
        \A s \in {OneLine(messages[1].text)} :
            /\ \A k \in 1..Len(resolved) :
                   /\ resolved[k].gale_level = LevelOfChar(AfterGlyph(s))
                   /\ FieldsAsWritten(resolved[k], s)
            /\ ExampleRecordHolds

\* C9, amended: the level of a record is the level of the character directly
\* after the check glyph, except that a digit there which is the whole
\* instrument (the separator and the time follow it directly) is read as the
\* instrument and the level is 0; the level is in 0..3, the other fields are
\* stored as captured, the result is WIN, LOSS or DOJI, and the example line
\* gives its record.
C9_LevelFromCapturedSup ==
    (pc # "app" /\ Len(messages) = 1) =>
        \A s \in {OneLine(messages[1].text)} :
            /\ \A k \in 1..Len(resolved) :
                   /\ resolved[k].gale_level =
                          (IF DigitIsInstrument(s) THEN 0
                           ELSE LevelOfChar(AfterGlyph(s)))
                   /\ DigitIsInstrument(s) => resolved[k].pair = <<s[2]>>
                   /\ FieldsAsWritten(resolved[k], s)
            /\ ExampleRecordHolds

\* "<ok>1 - 14:05:00 - M1 - call - WIN": the digit is the instrument
C9_Witness ==
    /\ pc = "pass1"
    /\ messages = <<[text |-> ResolvedLine("<ok>", <<>>, <<>>, W_One, Spaced,
                                           T_140500, W_M1, W_call, W_WIN)]>>
    /\ Len(resolved) = 1
    /\ resolved[1].pair = W_One
    /\ resolved[1].gale_level = 0

HasText(t) == \E j \in 1..Len(messages) : messages[j].text = t

\* the payout of the records of EURUSD-OTC at 14:05:00, by the open signals
\* of the whole export
PayoutAsInExport(recs) ==
    \A k \in 1..Len(recs) :
        IF recs[k].pair = W_EURUSD_OTC /\ recs[k].time = T_140500
        THEN /\ (HasText(TXT_Signal87) /\ ~HasText(TXT_SignalNoPayout))
                    => recs[k].payout = <<8700>>
             /\ (~HasText(TXT_Signal87) /\ ~HasText(TXT_SignalNoPayout))
                    => recs[k].payout = NoPayout
        ELSE recs[k].payout = NoPayout

\* C10: the payout of a record is the payout of the open signal of the same
\* instrument and time anywhere in the export, before or after the resolved
\* line: 0.87 for EURUSD-OTC at 14:05:00 when the export holds the signal with
\* Payout: 87%, none when the export holds no signal of that key.  For the
\* records of app.py and for those of validacao_horarios.
C10_PayoutFromAnySignal ==
    /\ pc # "app" => PayoutAsInExport(resolved)
    /\ pc \notin {"app", "pass1", "pass2"} => PayoutAsInExport(pg_records)

\* the same, for the two-pass extractor of validacao_horarios alone
PagePayoutFromAnySignal ==
    pc \notin {"app", "pass1", "pass2"} => PayoutAsInExport(pg_records)

\* the open signals of the export, all of EURUSD-OTC at 14:05:00
SignalTexts == {TXT_Signal87, TXT_SignalNoPayout}

SignalKey == <<W_EURUSD_OTC, T_140500>>

\* what the lookup holds once every message is read, the last signal winning
LastWriteWins(tbl) ==
    \A sent \in {{j \in 1..Len(messages) : messages[j].text \in SignalTexts}} :
        IF sent = {} THEN DOMAIN tbl = {}
        ELSE /\ DOMAIN tbl = {SignalKey}
             /\ tbl[SignalKey] = (IF messages[SetMax(sent)].text = TXT_Signal87
                                  THEN <<8700>> ELSE NoPayout)

\* the records of a two-pass extractor carry what the lookup holds
RecordsFromLookup(recs, tbl) ==
    \A k \in 1..Len(recs) :
        recs[k].payout = Lookup(tbl, <<recs[k].pair, recs[k].time>>)

\* the same, for the extractor of the page modules alone
PageLastWriteWins ==
    /\ pc \notin {"app", "pass1"} => LastWriteWins(pg_signals)
    /\ pc \notin {"app", "pass1", "pass2"} => RecordsFromLookup(pg_records, pg_signals)

\* C11: an open signal with instrument and time is recorded in the lookup,
\* with or without a payout, and the last signal of a key wins: after a signal
\* with Payout: 87% and a later signal of the same key without payout the
\* lookup holds no payout for the key, and a record of the key gets none.  For
\* the lookup of app.py and for that of the page modules.
C11_LastSignalWins ==
    /\ pc # "app" => LastWriteWins(signals)
    /\ PageLastWriteWins

(***************************************************************************)
(* The aggregators.  A frame is the list of records given to               *)
(* pd.DataFrame; df[df[f] == v] is the set of the rows where it holds.  A  *)
(* float that the code does not round is kept as the exact ratio           *)
(* <<numerator, denominator>>; a float rounded to two decimals is a count  *)
(* of 1/100.                                                               *)
(***************************************************************************)
NoDate == <<>>                 \* msg_date is None

\* the rows of recs whose field f is v
Where(recs, f, v) == {k \in 1..Len(recs) : recs[k][f] = v}

\* the rows with field f in the set S
WhereIn(recs, f, S) == {k \in 1..Len(recs) : recs[k][f] \in S}

\* the distinct values of field f, the keys of a groupby
KeysOf(recs, f) == {recs[k][f] : k \in 1..Len(recs)}

IsEven(n) == n % 2 = 0

\* round(n / d): to the nearest integer, a tie to the even one
RoundHalfEven(n, d) ==
    LET q == n \div d
        r == n % d
    IN  IF 2 * r < d THEN q
        ELSE IF 2 * r > d THEN q + 1
        ELSE IF IsEven(q) THEN q ELSE q + 1

\* round(a / b * 100.0, 2) as a count of 1/100 of a percent
Round2Pct(a, b) == RoundHalfEven(a * 100 * PctScale, b)

\* a / b * 100 unrounded, b > 0
PctRatio(a, b) == <<a * 100, b>>

ZeroRatio == <<0, 1>>

\* comparison of two unrounded floats
RatioLess(x, y) == x[1] * y[2] < y[1] * x[2]

RatioEq(x, y) == x[1] * y[2] = y[1] * x[2]

\* the ascending list of a set of integers
RECURSIVE SortedSeq(_)
SortedSeq(S) ==
    IF S = {} THEN <<>>
    ELSE <<SetMin(S)>> \o SortedSeq(S \ {SetMin(S)})

\* hourly = df.groupby("hour").agg(total, wins); win_rate = 100.0 * wins / total
HourlyTable(recs) ==
    [h \in KeysOf(recs, "hour") |->
        [total |-> Cardinality(Where(recs, "hour", h)),
         wins |-> Cardinality(Where(recs, "hour", h) \cap Where(recs, "result", "WIN")),
         win_rate |-> PctRatio(Cardinality(Where(recs, "hour", h)
                                               \cap Where(recs, "result", "WIN")),
                               Cardinality(Where(recs, "hour", h)))]]

\* min_sample = max(10, int(0.005 * total_ops))
MinSampleFloor == 10

min_sample(total_ops) ==
    IF (5 * total_ops) \div 1000 > MinSampleFloor
    THEN (5 * total_ops) \div 1000 ELSE MinSampleFloor

\* row a comes before row b in sort_values(["win_rate", "total"],
\* ascending=[False, False]); rows equal in both keep the order of the
\* groupby, ascending by hour
SortsBefore(hourly, a, b) ==
    \/ RatioLess(hourly[b].win_rate, hourly[a].win_rate)
    \/ /\ RatioEq(hourly[a].win_rate, hourly[b].win_rate)
       /\ \/ hourly[a].total > hourly[b].total
          \/ hourly[a].total = hourly[b].total /\ a < b

TopHours == 7

\* good_hours.head(7).sort_values("hour"), as the list of the hours
top_hours(hourly, total_ops) ==
    LET good == {h \in DOMAIN hourly : hourly[h].total >= min_sample(total_ops)}
    IN  SortedSeq({h \in good :
                      Cardinality({g \in good : SortsBefore(hourly, g, h)}) < TopHours})

\* f"{h:02d}:00-{h+1:02d}:00": the two hours the label shows
HourLabel(h) == <<h, h + 1>>

\* pair_counts = df["pair"].value_counts()
PairCounts(recs) ==
    [p \in KeysOf(recs, "pair") |-> Cardinality(Where(recs, "pair", p))]

\* the DOJIs left in the denominator
resolved_count_WithDojis(total_ops, dojis) == total_ops

\* resolved_count = total_ops - dojis
resolved_count(total_ops, dojis) == total_ops - dojis

\* the fields of the summary, given the hourly table and the shortlist
SummaryOf(recs, stakes, dflt, hourly, top) ==
    [outcome |-> "summary",
     total_ops |-> Len(recs),
     wins |-> Cardinality(Where(recs, "result", "WIN")),
     losses |-> Cardinality(Where(recs, "result", "LOSS")),
     dojis |-> Cardinality(Where(recs, "result", "DOJI")),
     win_rate |->
         IF resolved_count(Len(recs), Cardinality(Where(recs, "result", "DOJI"))) > 0
         THEN Round2Pct(Cardinality(Where(recs, "result", "WIN")),
                        resolved_count(Len(recs),
                                       Cardinality(Where(recs, "result", "DOJI"))))
         ELSE 0,
     g0 |-> Cardinality(Where(recs, "gale_level", 0)),
     g1 |-> Cardinality(Where(recs, "gale_level", 1)),
     g2 |-> Cardinality(Where(recs, "gale_level", 2)),
     pair_counts |-> PairCounts(recs),
     hourly_table |-> hourly,
     horarios |-> [i \in 1..Len(top) |-> HourLabel(top[i])],
     total_profit |-> SumProfits(recs, stakes, dflt)]

\* app.py summarize_resolved: {} for an empty frame
summarize_resolved(recs, stakes, dflt) ==
    IF recs = <<>> THEN [outcome |-> "empty"]
    ELSE Only({Only({SummaryOf(recs, stakes, dflt, hourly, top) :
                     top \in {top_hours(hourly, Len(recs))}}) :
               hourly \in {HourlyTable(recs)}})

\* the rows of a frame kept by a boolean mask, in order
RECURSIVE Rows(_, _)
Rows(recs, keep) ==
    IF recs = <<>> THEN <<>>
    ELSE IF Len(recs) \in keep
         THEN Append(Rows(SubSeq(recs, 1, Len(recs) - 1), keep), recs[Len(recs)])
         ELSE Rows(SubSeq(recs, 1, Len(recs) - 1), keep)

\* (WIN / (WIN + LOSS) * 100).fillna(0).round(2)
WinRatePct(wins, losses) ==
    IF wins + losses = 0 THEN 0 ELSE Round2Pct(wins, wins + losses)

\* one row of df.groupby(f).agg(Total_Operacoes, WIN, LOSS, DOJI), with
\* Win_Rate_Pct
GroupRow(recs, f, key) ==
    [Total_Operacoes |-> Cardinality(Where(recs, f, key)),
     WIN |-> Cardinality(Where(recs, f, key) \cap Where(recs, "result", "WIN")),
     LOSS |-> Cardinality(Where(recs, f, key) \cap Where(recs, "result", "LOSS")),
     DOJI |-> Cardinality(Where(recs, f, key) \cap Where(recs, "result", "DOJI")),
     Win_Rate_Pct |->
         WinRatePct(Cardinality(Where(recs, f, key) \cap Where(recs, "result", "WIN")),
                    Cardinality(Where(recs, f, key) \cap Where(recs, "result", "LOSS")))]

GroupTable(recs, f) == [key \in KeysOf(recs, f) |-> GroupRow(recs, f, key)]

\* qualidade_sala._safe_div(a, b) * 100.0 rounded to two decimals
SafeDivPct(a, b) == IF b = 0 THEN 0 ELSE Round2Pct(a, b)

\* wins at a level
WinsAt(recs, level) ==
    Cardinality(Where(recs, "gale_level", level) \cap Where(recs, "result", "WIN"))

LossesAt(recs, level) ==
    Cardinality(Where(recs, "gale_level", level) \cap Where(recs, "result", "LOSS"))

TotalAt(recs, level) == Cardinality(Where(recs, "gale_level", level))

\* the date of the model: a day of January 2024, whose first day is a Monday
WeekdayOf(date) == (date[1] - 1) % 7

DayOfMonth(date) == date[1]

IsoWeekOf(date) == (date[1] - 1) \div 7 + 1

\* qualidade_sala: the tendency shown for the gross win rate
Tendencia(win_rate_pct) ==
    IF win_rate_pct >= 85 * PctScale THEN "EXCELENTE"
    ELSE IF win_rate_pct >= 75 * PctScale THEN "BOM"
    ELSE IF win_rate_pct >= 65 * PctScale THEN "REGULAR"
    ELSE "ALERTA"

\* the weekly table of qualidade_sala: Win_Rate is not rounded
WeeklyTable(dated) ==
    [w \in {IsoWeekOf(dated[k].msg_date) : k \in 1..Len(dated)} |->
        [Total_Operacoes |->
             Cardinality({k \in 1..Len(dated) : IsoWeekOf(dated[k].msg_date) = w}),
         WIN |-> Cardinality({k \in 1..Len(dated) :
                     IsoWeekOf(dated[k].msg_date) = w /\ dated[k].result = "WIN"}),
         LOSS |-> Cardinality({k \in 1..Len(dated) :
                     IsoWeekOf(dated[k].msg_date) = w /\ dated[k].result = "LOSS"})]]

\* qualidade_sala.render_from_json: the cards are computed and drawn for any
\* frame; the weekly table reads df["msg_date"], a column a frame built from
\* no record does not have (KeyError)
qualidade_render(recs) ==
    [page |-> "Qualidade_Sala",
     total_operations |-> Len(recs),
     wins |-> Cardinality(Where(recs, "result", "WIN")),
     losses |-> Cardinality(Where(recs, "result", "LOSS")),
     dojis |-> Cardinality(Where(recs, "result", "DOJI")),
     win_rate_bruto_pct |->
         SafeDivPct(Cardinality(Where(recs, "result", "WIN")),
                    Cardinality(Where(recs, "result", "WIN"))
                        + Cardinality(Where(recs, "result", "LOSS"))),
     win_rate_g_pct |-> [g \in 0..2 |-> SafeDivPct(WinsAt(recs, g), TotalAt(recs, g))],
     ops_g_pct |-> [g \in 0..2 |-> SafeDivPct(TotalAt(recs, g), Len(recs))],
     tendencia |->
         Tendencia(SafeDivPct(Cardinality(Where(recs, "result", "WIN")),
                              Cardinality(Where(recs, "result", "WIN"))
                                  + Cardinality(Where(recs, "result", "LOSS")))),
     outcome |-> IF recs = <<>> THEN "KeyError"
                 ELSE IF Where(recs, "msg_date", NoDate) = 1..Len(recs)
                      THEN "no_dated_data"
                      ELSE "rendered",
     weekly |-> WeeklyTable(Rows(recs, (1..Len(recs)) \ Where(recs, "msg_date", NoDate)))]

\* a / b * 100 if b > 0 else 0, not rounded
PctOrZero(a, b) == IF b > 0 THEN PctRatio(a, b) ELSE ZeroRatio

\* the records of gale 1 alone
ops_ate_g1_Level1Only(recs) == Where(recs, "gale_level", 1)

\* ops_ate_g1 = df[df["gale_level"] <= 1], as record positions
ops_ate_g1(recs) == WhereIn(recs, "gale_level", {0, 1})

\* analise_gales.render_from_json: the metrics
gales_render(recs) ==
    IF recs = <<>> THEN [page |-> "Analise_Gales", outcome |-> "no_data"]
    ELSE [page |-> "Analise_Gales", outcome |-> "rendered",
          total_ops |-> Len(recs),
          total_g |-> [g \in 0..2 |-> TotalAt(recs, g)],
          pct_g |-> [g \in 0..2 |-> PctOrZero(TotalAt(recs, g), Len(recs))],
          wins_g |-> [g \in 0..2 |-> WinsAt(recs, g)],
          losses_g |-> [g \in 0..2 |-> LossesAt(recs, g)],
          wr_g |-> [g \in 0..2 |->
                       PctOrZero(WinsAt(recs, g), WinsAt(recs, g) + LossesAt(recs, g))],
          wr_com_g1 |->
              PctOrZero(Cardinality(ops_ate_g1(recs) \cap Where(recs, "result", "WIN")),
                        Cardinality(ops_ate_g1(recs)
                                        \cap WhereIn(recs, "result", {"WIN", "LOSS"}))),
          wr_com_g1_g2 |->
              PctOrZero(Cardinality(Where(recs, "result", "WIN")),
                        Cardinality(WhereIn(recs, "result", {"WIN", "LOSS"}))),
          taxa_recup_g |-> [g \in 1..2 |-> PctOrZero(WinsAt(recs, g), TotalAt(recs, g))],
          falhas_g |-> [g \in 1..2 |-> LossesAt(recs, g)]]

\* the share of the wins in place of the share of the losses
pair_volatility_OfWins(wins, losses) ==
    IF wins + losses = 0 THEN 0 ELSE Round2Pct(wins, wins + losses)

\* performance_paridades._calculate_volatility(wins, losses), rounded by the
\* caller to two decimals
pair_volatility(wins, losses) ==
    IF wins + losses = 0 THEN 0 ELSE Round2Pct(losses, wins + losses)

MinPairOps == 5

\* the bands with volatility ceilings of 5, 8 and 15
classify_pair_TightCeilings(win_rate_pct, volatility_pct, total_ops) ==
    IF total_ops < MinPairOps THEN "SEM_DADOS"
    ELSE IF win_rate_pct >= 90 * PctScale /\ volatility_pct <= 5 * PctScale
         THEN "EXCELENTE"
    ELSE IF win_rate_pct >= 85 * PctScale /\ volatility_pct <= 8 * PctScale
         THEN "BOM"
    ELSE IF win_rate_pct >= 80 * PctScale /\ volatility_pct <= 15 * PctScale
         THEN "OK"
    ELSE IF win_rate_pct >= 75 * PctScale THEN "REGULAR"
    ELSE "PERIGOSO"

\* performance_paridades._classify_pair
classify_pair(win_rate_pct, volatility_pct, total_ops) ==
    IF total_ops < MinPairOps THEN "SEM_DADOS"
    ELSE IF win_rate_pct >= 90 * PctScale /\ volatility_pct <= 15 * PctScale
         THEN "EXCELENTE"
    ELSE IF win_rate_pct >= 85 * PctScale /\ volatility_pct <= 18 * PctScale
         THEN "BOM"
    ELSE IF win_rate_pct >= 80 * PctScale /\ volatility_pct <= 25 * PctScale
         THEN "OK"
    ELSE IF win_rate_pct >= 75 * PctScale THEN "REGULAR"
    ELSE "PERIGOSO"

\* performance_paridades.render_from_json: the table of the instruments
pares_render(recs) ==
    IF recs = <<>> THEN [page |-> "Performance_Paridades", outcome |-> "no_data"]
    ELSE [page |-> "Performance_Paridades", outcome |-> "rendered",
          pair_analysis |->
              [p \in KeysOf(recs, "pair") |->
                  [Total_Operacoes |-> GroupRow(recs, "pair", p).Total_Operacoes,
                   WIN |-> GroupRow(recs, "pair", p).WIN,
                   LOSS |-> GroupRow(recs, "pair", p).LOSS,
                   DOJI |-> GroupRow(recs, "pair", p).DOJI,
                   Win_Rate_Pct |-> GroupRow(recs, "pair", p).Win_Rate_Pct,
                   Volatilidade_Pct |->
                       pair_volatility(GroupRow(recs, "pair", p).WIN,
                                       GroupRow(recs, "pair", p).LOSS),
                   Classificacao |->
                       classify_pair(GroupRow(recs, "pair", p).Win_Rate_Pct,
                                     pair_volatility(GroupRow(recs, "pair", p).WIN,
                                                     GroupRow(recs, "pair", p).LOSS),
                                     GroupRow(recs, "pair", p).Total_Operacoes)]]]

\* validacao_horarios._calculate_volatility(wins, total_ops), rounded by the
\* caller to two decimals
hour_volatility(wins, total_ops) ==
    IF total_ops = 0 THEN 0 ELSE Round2Pct(wins, total_ops)

\* the tier from the win rate alone
classify_hour_ByWinRate(win_rate_pct, volatility_pct) ==
    IF win_rate_pct >= 88 * PctScale THEN "EXCELENTE"
    ELSE IF win_rate_pct >= 85 * PctScale THEN "BOM"
    ELSE IF win_rate_pct >= 82 * PctScale THEN "OK"
    ELSE "RUIM"

\* validacao_horarios._classify_hour
classify_hour(win_rate_pct, volatility_pct) ==
    IF win_rate_pct >= 88 * PctScale /\ volatility_pct >= 78 * PctScale
    THEN "EXCELENTE"
    ELSE IF win_rate_pct >= 85 * PctScale /\ volatility_pct >= 74 * PctScale
         THEN "BOM"
    ELSE IF win_rate_pct >= 82 * PctScale /\ volatility_pct >= 68 * PctScale
         THEN "OK"
    ELSE "RUIM"

\* validacao_horarios.render_from_json: the table of the hours
horarios_render(recs) ==
    IF recs = <<>> THEN [page |-> "Validacao_Horarios", outcome |-> "no_data"]
    ELSE [page |-> "Validacao_Horarios", outcome |-> "rendered",
          hourly_analysis |->
              [h \in KeysOf(recs, "hour") |->
                  [Total_Operacoes |-> GroupRow(recs, "hour", h).Total_Operacoes,
                   WIN |-> GroupRow(recs, "hour", h).WIN,
                   LOSS |-> GroupRow(recs, "hour", h).LOSS,
                   DOJI |-> GroupRow(recs, "hour", h).DOJI,
                   Win_Rate_Pct |-> GroupRow(recs, "hour", h).Win_Rate_Pct,
                   Volatilidade_Pct |->
                       hour_volatility(GroupRow(recs, "hour", h).WIN,
                                       GroupRow(recs, "hour", h).Total_Operacoes),
                   Classificacao |->
                       classify_hour(GroupRow(recs, "hour", h).Win_Rate_Pct,
                                     hour_volatility(GroupRow(recs, "hour", h).WIN,
                                                     GroupRow(recs, "hour", h).Total_Operacoes)),
                   Faixa_Horaria |-> HourLabel(h)]]]

\* padroes_tendencias.classify_period(day); the first label is written here
\* without its accent
classify_period(day) ==
    IF day <= 10 THEN "Inicio (1-10)"
    ELSE IF day <= 20 THEN "Meio (11-20)"
    ELSE "Fim (21-31)"

\* the frame with the columns weekday and periodo_mes added
WithDateColumns(dated) ==
    [k \in 1..Len(dated) |->
        [result |-> dated[k].result, tf |-> dated[k].tf,
         direction |-> dated[k].direction,
         weekday |-> WeekdayOf(dated[k].msg_date),
         periodo_mes |-> classify_period(DayOfMonth(dated[k].msg_date))]]

\* the tables padroes_tendencias draws from the frame it kept
PadroesTables(df) ==
    [page |-> "Padroes_Tendencias", outcome |-> "rendered",
     rows |-> Len(df),
     weekday_analysis |-> GroupTable(df, "weekday"),
     period_analysis |-> GroupTable(df, "periodo_mes"),
     tf_analysis |-> GroupTable(df, "tf"),
     dir_analysis |-> GroupTable(df, "direction")]

\* padroes_tendencias.render_from_json: df = df[df["msg_date"].notnull()]
\* before every table
padroes_render(recs) ==
    IF recs = <<>> THEN [page |-> "Padroes_Tendencias", outcome |-> "no_data"]
    ELSE IF Where(recs, "msg_date", NoDate) = 1..Len(recs)
         THEN [page |-> "Padroes_Tendencias", outcome |-> "no_dated_data"]
    ELSE PadroesTables(WithDateColumns(
             Rows(recs, (1..Len(recs)) \ Where(recs, "msg_date", NoDate))))

\* gestao_risco.render_from_json: win_rate and loss_rate, fractions of 1
risco_rates(recs) ==
    IF recs = <<>> THEN [page |-> "Gestao_Risco", outcome |-> "no_data"]
    ELSE [page |-> "Gestao_Risco", outcome |-> "rendered",
          total_ops |-> Len(recs),
          wins |-> Cardinality(Where(recs, "result", "WIN")),
          losses |-> Cardinality(Where(recs, "result", "LOSS")),
          win_rate |->
              IF Cardinality(WhereIn(recs, "result", {"WIN", "LOSS"})) > 0
              THEN <<Cardinality(Where(recs, "result", "WIN")),
                     Cardinality(WhereIn(recs, "result", {"WIN", "LOSS"}))>>
              ELSE ZeroRatio,
          loss_rate |->
              IF Cardinality(WhereIn(recs, "result", {"WIN", "LOSS"})) > 0
              THEN <<Cardinality(Where(recs, "result", "LOSS")),
                     Cardinality(WhereIn(recs, "result", {"WIN", "LOSS"}))>>
              ELSE <<1, 1>>]

(***************************************************************************)
(* The pages over a set of records: app.py builds the summary of the       *)
(* records, then draws the page chosen in the sidebar.                     *)
(***************************************************************************)
MaxOps == 2
MaxWins == 10
MaxLosses == 3
MaxDojis == 2
MaxHours == 8

DigitChars == <<"0", "1", "2", "3", "4", "5", "6", "7", "8", "9">>

\* the time "hh:05:00" of a resolved line of hour h
TimeOfHour(h) ==
    <<DigitChars[(h \div 10) + 1], DigitChars[(h % 10) + 1], ":", "0", "5", ":", "0", "0">>

\* a record as the extractors build it
Op(result, level, hour, pair, tf, dir, date) ==
    [pair |-> pair, time |-> TimeOfHour(hour), hour |-> hour, tf |-> tf,
     direction |-> dir, result |-> result, gale_level |-> level,
     payout |-> NoPayout, msg_date |-> date]

\* every result at every level
LevelOps == {Op(r, g, 14, W_EURUSD_OTC, W_M1, W_call, NoDate) : r \in Results, g \in Levels}

\* records with and without a date, of two timeframes
DatedOps ==
    {Op(r, 0, 9, W_GBPJPY, x[1], W_put, x[2]) :
        r \in {"WIN", "LOSS"},
        x \in {<<W_M1, NoDate>>, <<W_M5, NoDate>>, <<W_M1, <<3>>>>, <<W_M5, <<25>>>>}}

\* n times the same record
Block(n, rec) == [i \in 1..n |-> rec]

\* one instrument and hour with w WINs, l LOSSes and d DOJIs
Bucket(w, l, d) ==
    Block(w, Op("WIN", 0, 14, W_EURUSD_OTC, W_M1, W_call, NoDate))
        \o Block(l, Op("LOSS", 0, 14, W_EURUSD_OTC, W_M1, W_call, NoDate))
        \o Block(d, Op("DOJI", 0, 14, W_EURUSD_OTC, W_M1, W_call, NoDate))

\* the records of one hour: none, one short of the minimum sample, the
\* minimum sample with two LOSSes, the minimum sample of WINs, or that and
\* one DOJI more
HourBlock(kind, h) ==
    CASE kind = "none" -> <<>>
      [] kind = "few" ->
            Block(MinSampleFloor - 1, Op("WIN", 0, h, W_EURUSD_OTC, W_M1, W_call, NoDate))
      [] kind = "mixed" ->
            Block(MinSampleFloor - 2, Op("WIN", 0, h, W_EURUSD_OTC, W_M1, W_call, NoDate))
                \o Block(2, Op("LOSS", 0, h, W_EURUSD_OTC, W_M1, W_call, NoDate))
      [] kind = "wins" ->
            Block(MinSampleFloor, Op("WIN", 0, h, W_EURUSD_OTC, W_M1, W_call, NoDate))
      [] kind = "wins_doji" ->
            Block(MinSampleFloor, Op("WIN", 0, h, W_EURUSD_OTC, W_M1, W_call, NoDate))
                \o Block(1, Op("DOJI", 0, h, W_EURUSD_OTC, W_M1, W_call, NoDate))

FirstHour == 9

\* the records of the hours FirstHour, FirstHour + 1, ... in a day's order
RECURSIVE HoursOps(_, _)
HoursOps(kinds, n) ==
    IF n = 0 THEN <<>>
    ELSE HoursOps(kinds, n - 1) \o HourBlock(kinds[n], FirstHour + n - 1)

HourKinds ==
    {k \in [1..MaxHours -> {"none", "few", "mixed", "wins", "wins_doji"}] :
        \A i \in 2..MaxHours : k[i] \in {"wins", "wins_doji"}}

\* the record sets the pages are given
OpsPool ==
    SeqsUpTo(LevelOps, MaxOps)
        \cup SeqsUpTo(DatedOps, MaxRecs)
        \cup {Bucket(w, l, d) : w \in 0..MaxWins, l \in 0..MaxLosses, d \in 0..MaxDojis}
        \cup {Bucket(0, 0, d) : d \in 1..MinPairOps}
        \cup {HoursOps(k, MaxHours) : k \in HourKinds}

\* the columns gestao_risco._extract_records keeps
RiskColumns(recs) ==
    [k \in 1..Len(recs) |-> [result |-> recs[k].result, gale_level |-> recs[k].gale_level]]

Pending == [outcome |-> "pending"]

InitStats ==
    /\ pc = "resumo"
    /\ resolved \in OpsPool
    /\ pg_records = resolved
    /\ records = RiskColumns(resolved)
    /\ ret = [summary |-> Pending, resumo |-> Pending, page |-> Pending]
    /\ call = <<>>
    /\ messages = <<>>
    /\ idx = 1
    /\ signals = EmptyTable
    /\ pg_signals = EmptyTable
    /\ equity = <<>>
    /\ current = 0
    /\ total_profit = NotCalled
    /\ peak = 0
    /\ max_dd = 0
    /\ max_dd_pct = 0
    /\ min_balance = 0

\* the part of build_resumo_params_from_json taken from the summary
resumo_params(summary) ==
    IF summary.outcome = "empty"
    THEN [outcome |-> "no_data", mes |-> "Sem dados", horarios |-> <<>>,
          g0 |-> 0, g1 |-> 0, g2 |-> 0, capital |-> capital_inicial]
    ELSE [outcome |-> "resumo", win_rate |-> summary.win_rate,
          horarios |-> summary.horarios,
          g0 |-> summary.g0, g1 |-> summary.g1, g2 |-> summary.g2,
          capital |-> capital_inicial]

\* app.py build_resumo_params_from_json over the records of the export
BuildResumo ==
    /\ pc = "resumo"
    /\ \E summary \in {summarize_resolved(resolved, default_stakes, default_payout)} :
           /\ ret' = [ret EXCEPT !.summary = summary, !.resumo = resumo_params(summary)]
           /\ total_profit' = IF summary.outcome = "empty" THEN NotCalled
                              ELSE <<summary.total_profit>>
    /\ pc' = "page"
    /\ UNCHANGED <<messages, idx, signals, resolved, pg_signals, pg_records, records,
                   equity, current, peak, max_dd, max_dd_pct, min_balance, call>>

\* pagina == "Resumo Executivo": render_resumo_executivo(resumo_params, summary)
RenderResumoExecutivo ==
    /\ pc = "page"
    /\ ret' = [ret EXCEPT !.page = [page |-> "Resumo Executivo",
                               outcome |-> IF ret.summary.outcome = "empty" THEN "no_data"
                                           ELSE "rendered"]]
    /\ pc' = "drawn"
    /\ UNCHANGED <<messages, idx, signals, resolved, pg_signals, pg_records, records,
                   equity, current, total_profit, peak, max_dd, max_dd_pct,
                   min_balance, call>>

\* pagina == "Qualidade_Sala": qualidade_sala.render_from_json
RenderQualidadeSala ==
    /\ pc = "page"
    /\ ret' = [ret EXCEPT !.page = qualidade_render(pg_records)]
    /\ pc' = "drawn"
    /\ UNCHANGED <<messages, idx, signals, resolved, pg_signals, pg_records, records,
                   equity, current, total_profit, peak, max_dd, max_dd_pct,
                   min_balance, call>>

\* pagina == "Validacao_Horarios": validacao_horarios.render_from_json
RenderValidacaoHorarios ==
    /\ pc = "page"
    /\ ret' = [ret EXCEPT !.page = horarios_render(pg_records)]
    /\ pc' = "drawn"
    /\ UNCHANGED <<messages, idx, signals, resolved, pg_signals, pg_records, records,
                   equity, current, total_profit, peak, max_dd, max_dd_pct,
                   min_balance, call>>

\* pagina == "Performance_Paridades": performance_paridades.render_from_json
RenderPerformanceParidades ==
    /\ pc = "page"
    /\ ret' = [ret EXCEPT !.page = pares_render(pg_records)]
    /\ pc' = "drawn"
    /\ UNCHANGED <<messages, idx, signals, resolved, pg_signals, pg_records, records,
                   equity, current, total_profit, peak, max_dd, max_dd_pct,
                   min_balance, call>>

\* pagina == "Analise_Gales": analise_gales.render_from_json
RenderAnaliseGales ==
    /\ pc = "page"
    /\ ret' = [ret EXCEPT !.page = gales_render(pg_records)]
    /\ pc' = "drawn"
    /\ UNCHANGED <<messages, idx, signals, resolved, pg_signals, pg_records, records,
                   equity, current, total_profit, peak, max_dd, max_dd_pct,
                   min_balance, call>>

\* pagina == "Padroes_Tendencias": padroes_tendencias.render_from_json
RenderPadroesTendencias ==
    /\ pc = "page"
    /\ ret' = [ret EXCEPT !.page = padroes_render(pg_records)]
    /\ pc' = "drawn"
    /\ UNCHANGED <<messages, idx, signals, resolved, pg_signals, pg_records, records,
                   equity, current, total_profit, peak, max_dd, max_dd_pct,
                   min_balance, call>>

\* pagina == "Gestao_Risco": the rates of gestao_risco.render_from_json
RenderGestaoRisco ==
    /\ pc = "page"
    /\ ret' = [ret EXCEPT !.page = risco_rates(records)]
    /\ pc' = "drawn"
    /\ UNCHANGED <<messages, idx, signals, resolved, pg_signals, pg_records, records,
                   equity, current, total_profit, peak, max_dd, max_dd_pct,
                   min_balance, call>>

NextStats ==
    \/ BuildResumo
    \/ RenderResumoExecutivo
    \/ RenderQualidadeSala
    \/ RenderValidacaoHorarios
    \/ RenderPerformanceParidades
    \/ RenderAnaliseGales
    \/ RenderPadroesTendencias
    \/ RenderGestaoRisco

\* the summary and one page over a set of records
SpecStats == InitStats /\ [][NextStats]_vars

(***************************************************************************)
(* Properties of the aggregators (SpecStats).                              *)
(***************************************************************************)
\* the number of records with result r, counted one by one
RECURSIVE NumResult(_, _)
NumResult(recs, r) ==
    IF recs = <<>> THEN 0
    ELSE NumResult(Tail(recs), r) + (IF Head(recs).result = r THEN 1 ELSE 0)

\* pct, a count of 1/100 of a percent, is a / b x 100 to the nearest 1/100
IsPctOf(pct, a, b) ==
    /\ 2 * (pct * b - a * 100 * PctScale) <= b
    /\ 2 * (a * 100 * PctScale - pct * b) <= b

\* rate is the global win rate of the records: wins / (wins + losses) x 100
\* with the DOJIs left out, 0 when there is neither a WIN nor a LOSS
IsGlobalWinRate(rate, recs) ==
    /\ rate \in 0..(100 * PctScale)
    /\ IF NumResult(recs, "WIN") + NumResult(recs, "LOSS") = 0 THEN rate = 0
       ELSE IsPctOf(rate, NumResult(recs, "WIN"),
                    NumResult(recs, "WIN") + NumResult(recs, "LOSS"))

\* C12: the global win rate of the summary, of the quality page and of the
\* risk page is wins / (wins + losses) x 100 with the DOJIs out of the
\* denominator (to two decimals where the code rounds; the risk page holds
\* the same ratio as a fraction of 1), lies in 0..100 and is 0 when there is
\* neither a WIN nor a LOSS.
C12_GlobalWinRate ==
    /\ ret.summary.outcome = "summary" =>
           IsGlobalWinRate(ret.summary.win_rate, resolved)
    /\ ret.page.outcome # "pending" /\ ret.page.page = "Qualidade_Sala" =>
           IsGlobalWinRate(ret.page.win_rate_bruto_pct, pg_records)
    /\ ret.page.outcome = "rendered" /\ ret.page.page = "Gestao_Risco" =>
           /\ ret.page.win_rate[1] >= 0
           /\ ret.page.win_rate[1] <= ret.page.win_rate[2]
           /\ IF NumResult(records, "WIN") + NumResult(records, "LOSS") = 0
              THEN ret.page.win_rate[1] = 0
              ELSE ret.page.win_rate[1]
                       * (NumResult(records, "WIN") + NumResult(records, "LOSS"))
                   = NumResult(records, "WIN") * ret.page.win_rate[2]

C12_Witness ==
    /\ pc = "drawn"
    /\ ret.page.page = "Qualidade_Sala"
    /\ resolved = Bucket(2, 1, 1)
    /\ ret.summary.win_rate = 6667
    /\ ret.page.win_rate_bruto_pct = 6667

\* the number of records with result r at gale level g, counted one by one
RECURSIVE NumAt(_, _, _)
NumAt(recs, r, g) ==
    IF recs = <<>> THEN 0
    ELSE NumAt(Tail(recs), r, g)
         + (IF Head(recs).result = r /\ Head(recs).gale_level = g THEN 1 ELSE 0)

\* ratio, an unrounded percentage, is a / b x 100, or 0 when b is 0
IsRatioOf(ratio, a, b) ==
    IF b = 0 THEN ratio[1] = 0 ELSE RatioEq(ratio, <<a * 100, b>>)

\* rate, rounded to 1/100 of a percent, is a / b x 100, or 0 when b is 0
IsRoundedRateOf(rate, a, b) ==
    IF b = 0 THEN rate = 0 ELSE IsPctOf(rate, a, b)

\* C13: at each gale level 0, 1 and 2 the per-level win rate is
\* wins / (wins + losses) x 100 at that level, DOJI out of the denominator,
\* in the gale page and in the quality page alike; the recovery rate of the
\* gale page is wins / total x 100 at that level, DOJI included; each is 0
\* when its denominator is 0.
C13_PerLevelRates ==
    /\ ret.page.outcome = "rendered" /\ ret.page.page = "Analise_Gales" =>
           /\ \A g \in 0..2 :
                  IsRatioOf(ret.page.wr_g[g], NumAt(pg_records, "WIN", g),
                            NumAt(pg_records, "WIN", g) + NumAt(pg_records, "LOSS", g))
           /\ \A g \in DOMAIN ret.page.taxa_recup_g :
                  IsRatioOf(ret.page.taxa_recup_g[g], NumAt(pg_records, "WIN", g),
                            NumAt(pg_records, "WIN", g) + NumAt(pg_records, "LOSS", g)
                                + NumAt(pg_records, "DOJI", g))
    /\ ret.page.outcome # "pending" /\ ret.page.page = "Qualidade_Sala" =>
           \A g \in 0..2 :
               IsRoundedRateOf(ret.page.win_rate_g_pct[g], NumAt(pg_records, "WIN", g),
                               NumAt(pg_records, "WIN", g) + NumAt(pg_records, "LOSS", g))

\* the part of C13 that is about the gale page alone
C13_GalePageRates ==
    ret.page.outcome = "rendered" /\ ret.page.page = "Analise_Gales" =>
        /\ \A g \in 0..2 :
               IsRatioOf(ret.page.wr_g[g], NumAt(pg_records, "WIN", g),
                         NumAt(pg_records, "WIN", g) + NumAt(pg_records, "LOSS", g))
        /\ \A g \in DOMAIN ret.page.taxa_recup_g :
               IsRatioOf(ret.page.taxa_recup_g[g], NumAt(pg_records, "WIN", g),
                         NumAt(pg_records, "WIN", g) + NumAt(pg_records, "LOSS", g)
                             + NumAt(pg_records, "DOJI", g))

\* the number of records with result r at the gale levels 0..n
RECURSIVE NumThrough(_, _, _)
NumThrough(recs, r, n) ==
    IF n < 0 THEN 0 ELSE NumThrough(recs, r, n - 1) + NumAt(recs, r, n)

\* C14: the combined win rate through gale N pools the WINs and LOSSes of
\* exactly the records at gale levels 0..N: through gale 1 the levels 0 and
\* 1, through gale 2 the levels 0, 1 and 2; a record at level 3 is in
\* neither.
C14_ThroughGalePools ==
    ret.page.outcome = "rendered" /\ ret.page.page = "Analise_Gales" =>
        /\ IsRatioOf(ret.page.wr_com_g1, NumThrough(pg_records, "WIN", 1),
                     NumThrough(pg_records, "WIN", 1)
                         + NumThrough(pg_records, "LOSS", 1))
        /\ IsRatioOf(ret.page.wr_com_g1_g2, NumThrough(pg_records, "WIN", 2),
                     NumThrough(pg_records, "WIN", 2)
                         + NumThrough(pg_records, "LOSS", 2))

\* the part of C14 that is about the rate through gale 1 alone
C14_ThroughGale1 ==
    ret.page.outcome = "rendered" /\ ret.page.page = "Analise_Gales" =>
        IsRatioOf(ret.page.wr_com_g1, NumThrough(pg_records, "WIN", 1),
                  NumThrough(pg_records, "WIN", 1) + NumThrough(pg_records, "LOSS", 1))

\* the rate through gale 2 as the code pools it: every record, level 3 too
C14_ThroughGale2PoolsAll ==
    ret.page.outcome = "rendered" /\ ret.page.page = "Analise_Gales" =>
        IsRatioOf(ret.page.wr_com_g1_g2, NumThrough(pg_records, "WIN", 3),
                  NumThrough(pg_records, "WIN", 3) + NumThrough(pg_records, "LOSS", 3))

\* the number of records with result r above gale level 1
NumAboveGale1(recs, r) == NumThrough(recs, r, 3) - NumThrough(recs, r, 1)

\* the win rate of the records above gale level 1, unrounded
RateAboveGale1(recs) ==
    <<100 * NumAboveGale1(recs, "WIN"),
      NumAboveGale1(recs, "WIN") + NumAboveGale1(recs, "LOSS")>>

\* C15 (as stated): for any record set the win rate at level 0 is at most
\* the win rate through gale 1, which is at most the win rate through gale
\* 2, whenever the win rate of each level beyond 0 is at least 0%.
C15_MonotoneInN ==
    ret.page.outcome = "rendered" /\ ret.page.page = "Analise_Gales"
        /\ (\A g \in 1..2 : ret.page.wr_g[g][1] >= 0) =>
        /\ ~RatioLess(ret.page.wr_com_g1, ret.page.wr_g[0])
        /\ ~RatioLess(ret.page.wr_com_g1_g2, ret.page.wr_com_g1)

\* C15 (amended): the win rate at level 0 is at most the win rate through
\* gale 1 exactly when level 1 has no WIN or LOSS record or its win rate is
\* at least the win rate at level 0; the win rate through gale 1 is at most
\* the win rate through gale 2 exactly when the records above level 1 have
\* no WIN or LOSS or their win rate is at least the win rate through gale 1.
C15_MonotoneWhenLaterLevelsNotWorse ==
    ret.page.outcome = "rendered" /\ ret.page.page = "Analise_Gales" =>
        /\ ~RatioLess(ret.page.wr_com_g1, ret.page.wr_g[0])
               <=> \/ ret.page.wins_g[1] + ret.page.losses_g[1] = 0
                   \/ ~RatioLess(ret.page.wr_g[1], ret.page.wr_g[0])
        /\ ~RatioLess(ret.page.wr_com_g1_g2, ret.page.wr_com_g1)
               <=> \/ RateAboveGale1(pg_records)[2] = 0
                   \/ ~RatioLess(RateAboveGale1(pg_records), ret.page.wr_com_g1)

C15_Witness ==
    /\ pc = "drawn"
    /\ ret.page.page = "Analise_Gales"
    /\ ret.page.outcome = "rendered"
    /\ NumAt(pg_records, "LOSS", 0) = 1
    /\ NumAt(pg_records, "WIN", 1) = 1
    /\ RatioLess(ret.page.wr_g[0], ret.page.wr_com_g1)
    /\ RatioEq(ret.page.wr_com_g1, ret.page.wr_com_g1_g2)

\* the number of records of hour h whose result is in the set S
RECURSIVE NumHour(_, _, _)
NumHour(recs, S, h) ==
    IF recs = <<>> THEN 0
    ELSE NumHour(Tail(recs), S, h)
         + (IF Head(recs).hour = h /\ Head(recs).result \in S THEN 1 ELSE 0)

\* wins / (wins + losses) x 100 of hour h, unrounded, 0 with neither
HourWinRate(recs, h) ==
    IF NumHour(recs, {"WIN", "LOSS"}, h) = 0 THEN ZeroRatio
    ELSE <<100 * NumHour(recs, {"WIN"}, h), NumHour(recs, {"WIN", "LOSS"}, h)>>

\* wins / operations x 100 of hour h, unrounded, LOSS and DOJI counted
HourWinShare(recs, h) ==
    IF NumHour(recs, Results, h) = 0 THEN ZeroRatio
    ELSE <<100 * NumHour(recs, {"WIN"}, h), NumHour(recs, Results, h)>>

\* hour h has at least max(10, 0.5% of the operations) operations
EligibleHour(recs, h) ==
    /\ NumHour(recs, Results, h) >= 10
    /\ 1000 * NumHour(recs, Results, h) >= 5 * Len(recs)

\* the hours the shortlist shows
ShortlistHours(summary) == {summary.horarios[i][1] : i \in DOMAIN summary.horarios}

\* the shortlist holds eligible hours only, at most 7, ascending, and no
\* eligible hour left out ranks above one that is in: by Rate, then by volume
GoodHoursRankedBy(Rate(_, _), summary, recs) ==
    /\ \A h \in ShortlistHours(summary) : EligibleHour(recs, h)
    /\ Len(summary.horarios) <= 7
    /\ \A i \in DOMAIN summary.horarios : summary.horarios[i][2] = summary.horarios[i][1] + 1
    /\ \A i, j \in DOMAIN summary.horarios :
           i < j => summary.horarios[i][1] < summary.horarios[j][1]
    /\ \A h \in ShortlistHours(summary) :
           \A g \in KeysOf(recs, "hour") \ ShortlistHours(summary) :
               EligibleHour(recs, g) =>
                   /\ ~RatioLess(Rate(recs, h), Rate(recs, g))
                   /\ RatioEq(Rate(recs, h), Rate(recs, g)) =>
                          NumHour(recs, Results, g) <= NumHour(recs, Results, h)

\* C16: the good-hours shortlist of summarize_resolved holds only hours with
\* at least max(10, 0.5% of the operations) operations, at most 7 of them,
\* ascending by hour, and is the top of the ranking by win rate then volume,
\* the win rate of an hour being wins / (wins + losses) x 100: no eligible
\* hour left out has a higher win rate, or the same and a higher volume,
\* than an hour that is in.
C16_GoodHoursShortlist ==
    ret.summary.outcome = "summary" =>
        GoodHoursRankedBy(HourWinRate, ret.summary, resolved)

\* the shortlist is the top of the ranking by wins / operations of the hour
C16_ShortlistByWinShare ==
    ret.summary.outcome = "summary" =>
        GoodHoursRankedBy(HourWinShare, ret.summary, resolved)

\* the number of records of instrument p whose result is in the set S
RECURSIVE NumPair(_, _, _)
NumPair(recs, S, p) ==
    IF recs = <<>> THEN 0
    ELSE NumPair(Tail(recs), S, p)
         + (IF Head(recs).pair = p /\ Head(recs).result \in S THEN 1 ELSE 0)

\* a / b x 100 >= t, a / b taken as 0 when b is 0
AtLeastPct(a, b, t) == b > 0 /\ 100 * a >= t * b

\* a / b x 100 <= t, a / b taken as 0 when b is 0
AtMostPct(a, b, t) == b = 0 \/ 100 * a <= t * b

\* the band of an instrument with w WINs, l LOSSes and n trades: the first
\* that matches, volatility being l / (w + l) x 100
BandOf(w, l, n) ==
    IF n < 5 THEN "SEM_DADOS"
    ELSE IF AtLeastPct(w, w + l, 90) /\ AtMostPct(l, w + l, 15) THEN "EXCELENTE"
    ELSE IF AtLeastPct(w, w + l, 85) /\ AtMostPct(l, w + l, 18) THEN "BOM"
    ELSE IF AtLeastPct(w, w + l, 80) /\ AtMostPct(l, w + l, 25) THEN "OK"
    ELSE IF AtLeastPct(w, w + l, 75) THEN "REGULAR"
    ELSE "PERIGOSO"

\* C17: an instrument with fewer than 5 trades is "insufficient data";
\* otherwise it gets the first band that matches among (win rate >= 90 and
\* volatility <= 15), (>= 85 and <= 18), (>= 80 and <= 25), (win rate >= 75),
\* else the worst band, with volatility = losses / (wins + losses) x 100; an
\* instrument of 10 WINs at level 0 and no LOSS is in the top band with win
\* rate 100 and volatility 0.
C17_PairBands ==
    ret.page.outcome = "rendered" /\ ret.page.page = "Performance_Paridades" =>
        \A p \in KeysOf(pg_records, "pair") :
            /\ p \in DOMAIN ret.page.pair_analysis
            /\ ret.page.pair_analysis[p].Classificacao
                   = BandOf(NumPair(pg_records, {"WIN"}, p),
                            NumPair(pg_records, {"LOSS"}, p),
                            NumPair(pg_records, Results, p))
            /\ IsRoundedRateOf(ret.page.pair_analysis[p].Volatilidade_Pct,
                               NumPair(pg_records, {"LOSS"}, p),
                               NumPair(pg_records, {"WIN", "LOSS"}, p))
            /\ IsRoundedRateOf(ret.page.pair_analysis[p].Win_Rate_Pct,
                               NumPair(pg_records, {"WIN"}, p),
                               NumPair(pg_records, {"WIN", "LOSS"}, p))
            /\ NumPair(pg_records, {"WIN"}, p) = 10
                   /\ NumPair(pg_records, Results, p) = 10 =>
                   /\ ret.page.pair_analysis[p].Classificacao = "EXCELENTE"
                   /\ ret.page.pair_analysis[p].Win_Rate_Pct = 100 * PctScale
                   /\ ret.page.pair_analysis[p].Volatilidade_Pct = 0

C17_Witness ==
    /\ pc = "drawn"
    /\ ret.page.page = "Performance_Paridades"
    /\ ret.page.outcome = "rendered"
    /\ pg_records = Bucket(10, 0, 0)
    /\ \A k \in 1..Len(pg_records) : pg_records[k].gale_level = 0
    /\ \A p \in DOMAIN ret.page.pair_analysis :
           ret.page.pair_analysis[p].Classificacao = "EXCELENTE"

\* the tiers _classify_hour gives over the figures around its thresholds
HourTiers ==
    {classify_hour(w * PctScale, v * PctScale) :
        w \in {0, 81, 82, 84, 85, 87, 88, 100}, v \in {0, 67, 68, 73, 74, 77, 78, 100}}

\* the tier of an hour with w WINs, l LOSSes and n operations: the first that
\* matches, on w / (w + l) and on w / n
TierOf(w, l, n) ==
    IF AtLeastPct(w, w + l, 88) /\ AtLeastPct(w, n, 78) THEN "EXCELENTE"
    ELSE IF AtLeastPct(w, w + l, 85) /\ AtLeastPct(w, n, 74) THEN "BOM"
    ELSE IF AtLeastPct(w, w + l, 82) /\ AtLeastPct(w, n, 68) THEN "OK"
    ELSE "RUIM"

C19_NoDataOnZeroRecords ==
    resolved = <<>> /\ pg_records = <<>> /\ records = <<>> =>
        /\ ret.summary.outcome # "pending" =>
               ret.summary.outcome = "empty" /\ ret.resumo.outcome = "no_data"
        /\ ret.page.outcome # "pending" => ret.page.outcome = "no_data"

\* C19 for every entry point but the quality page
C19_NoDataButQualidade ==
    resolved = <<>> /\ pg_records = <<>> /\ records = <<>> =>
        /\ ret.summary.outcome # "pending" =>
               ret.summary.outcome = "empty" /\ ret.resumo.outcome = "no_data"
        /\ ret.page.outcome # "pending" /\ ret.page.page # "Qualidade_Sala" =>
               ret.page.outcome = "no_data"

\* the quality page with zero records ends in the KeyError of df["msg_date"]
C19_QualidadeRaises ==
    pg_records = <<>> /\ ret.page.outcome # "pending"
        /\ ret.page.page = "Qualidade_Sala" =>
        ret.page.outcome = "KeyError"

\* the number of records with a message date
RECURSIVE NumDated(_)
NumDated(recs) ==
    IF recs = <<>> THEN 0
    ELSE NumDated(Tail(recs)) + (IF Head(recs).msg_date # NoDate THEN 1 ELSE 0)

\* the operations a table counts: the sum of Total_Operacoes over its rows
RECURSIVE SumOver(_, _)
SumOver(table, keys) ==
    IF keys = {} THEN 0
    ELSE LET key == CHOOSE x \in keys : TRUE
         IN  table[key].Total_Operacoes + SumOver(table, keys \ {key})

CountedIn(table) == SumOver(table, DOMAIN table)

\* the date-keyed tables count the dated records only
DateKeyedCountDated ==
    /\ ret.page.outcome = "rendered" /\ ret.page.page = "Padroes_Tendencias" =>
           /\ CountedIn(ret.page.weekday_analysis) = NumDated(pg_records)
           /\ CountedIn(ret.page.period_analysis) = NumDated(pg_records)
    /\ ret.page.outcome = "rendered" /\ ret.page.page = "Qualidade_Sala" =>
           CountedIn(ret.page.weekly) = NumDated(pg_records)

\* the date-independent figures of the summary and of the quality, hour,
\* instrument and gale pages count every record
DateFreeCountAll ==
    /\ ret.summary.outcome = "summary" =>
           /\ ret.summary.total_ops = Len(resolved)
           /\ CountedIn([h \in DOMAIN ret.summary.hourly_table |->
                            [Total_Operacoes |-> ret.summary.hourly_table[h].total]])
                  = Len(resolved)
    /\ ret.page.outcome # "pending" /\ ret.page.page = "Qualidade_Sala" =>
           ret.page.total_operations = Len(pg_records)
    /\ ret.page.outcome = "rendered" /\ ret.page.page = "Validacao_Horarios" =>
           CountedIn(ret.page.hourly_analysis) = Len(pg_records)
    /\ ret.page.outcome = "rendered" /\ ret.page.page = "Performance_Paridades" =>
           CountedIn(ret.page.pair_analysis) = Len(pg_records)
    /\ ret.page.outcome = "rendered" /\ ret.page.page = "Analise_Gales" =>
           ret.page.total_ops = Len(pg_records)

\* C20: a record whose message date cannot be parsed is left out of the
\* date-keyed aggregations (weekday, period of the month, weekly table) and
\* is still counted in the date-independent ones (global counts, per gale
\* level, per timeframe, per direction, per instrument, per hour).
C20_DatelessKeptWhereDateFree ==
    /\ DateKeyedCountDated
    /\ DateFreeCountAll
    /\ ret.page.outcome # "pending" /\ ret.page.page = "Padroes_Tendencias"
           /\ pg_records # <<>> =>
           /\ ret.page.outcome = "rendered"
           /\ CountedIn(ret.page.tf_analysis) = Len(pg_records)
           /\ CountedIn(ret.page.dir_analysis) = Len(pg_records)

\* C20 without the timeframe and direction tables
C20_AllButTimeframeAndDirection == DateKeyedCountDated /\ DateFreeCountAll

\* the timeframe and direction tables count the dated records only
C20_TimeframeCountsDated ==
    ret.page.outcome = "rendered" /\ ret.page.page = "Padroes_Tendencias" =>
        /\ CountedIn(ret.page.tf_analysis) = NumDated(pg_records)
        /\ CountedIn(ret.page.dir_analysis) = NumDated(pg_records)

(***************************************************************************)
(* The text of a message whose values are of any JSON type.  A value is a  *)
(* record: kind is "absent" (no such key), "null", "num", "str" or "list"; *)
(* str is the string, frags the fragments of a list.  A fragment is a      *)
(* plain string (kind "str") or a dict (kind "dict") whose "text" is       *)
(* absent, null or a string.                                               *)
(***************************************************************************)
MaxFrags == 2

VAbsent == [kind |-> "absent", str |-> <<>>, frags |-> <<>>]
VNull == [kind |-> "null", str |-> <<>>, frags |-> <<>>]
VNum == [kind |-> "num", str |-> <<>>, frags |-> <<>>]
VStr(s) == [kind |-> "str", str |-> s, frags |-> <<>>]
VList(fs) == [kind |-> "list", str |-> <<>>, frags |-> fs]

\* "✅¹ EURUSD-OTC" and " - 14:05:00 - M1 - call - WIN", the two fragments of
\* a resolved line whose instrument is in bold
TXT_Win1Head == SubSeq(TXT_Win1, 1, 3 + Len(W_EURUSD_OTC))
TXT_Win1Rest == SubSeq(TXT_Win1, 4 + Len(W_EURUSD_OTC), Len(TXT_Win1))

FragPool ==
    {[kind |-> "dict", text |-> "str", str |-> TXT_Win1Head],
     [kind |-> "dict", text |-> "absent", str |-> <<>>],
     [kind |-> "dict", text |-> "null", str |-> <<>>],
     [kind |-> "str", text |-> "str", str |-> TXT_Win1Rest]}

\* the outcome of a read: a string, or the exception that escaped
Returned(s) == [outcome |-> "text", text |-> s]
Raised(exc) == [outcome |-> exc, text |-> <<>>]

\* "".join([t.get("text", "") if isinstance(t, dict) else str(t) for t in
\* text]): join raises TypeError on an item that is not a string
RECURSIVE JoinFragments(_)
JoinFragments(fs) ==
    IF fs = <<>> THEN Returned(<<>>)
    ELSE IF Head(fs).kind = "dict" /\ Head(fs).text = "null" THEN Raised("TypeError")
    ELSE IF JoinFragments(Tail(fs)).outcome # "text" THEN JoinFragments(Tail(fs))
    ELSE Returned((IF Head(fs).kind = "dict" /\ Head(fs).text = "absent"
                   THEN <<>> ELSE Head(fs).str)
                  \o JoinFragments(Tail(fs)).text)

\* the value under a key: msg.get(key)
ValueAt(msg, key) == IF key \in DOMAIN msg THEN msg[key] ELSE VAbsent

\* bool(v) of a value: None, "", [] and an absent key are falsy
Truthy(v) ==
    \/ v.kind = "num"
    \/ v.kind = "str" /\ v.str # <<>>
    \/ v.kind = "list" /\ v.frags # <<>>

\* app.py extract_records: text = msg.get("text", ""), a list joined, then
\* the test "Ativo:" in text, a TypeError when text is None or a number
app_text(msg) ==
    CASE ValueAt(msg, "text").kind = "absent" -> Returned(<<>>)
      [] ValueAt(msg, "text").kind = "str" -> Returned(ValueAt(msg, "text").str)
      [] ValueAt(msg, "text").kind = "list" -> JoinFragments(ValueAt(msg, "text").frags)
      [] OTHER -> Raised("TypeError")

\* _get_text_from_msg of the page modules
page_text(msg) ==
    LET good == {k \in 1..Len(TextKeys) :
                    /\ ValueAt(msg, TextKeys[k]).kind = "str"
                    /\ Strip(ValueAt(msg, TextKeys[k]).str) # <<>>}
        v == IF Truthy(ValueAt(msg, "text")) THEN ValueAt(msg, "text")
             ELSE ValueAt(msg, "message")
    IN  IF good # {} THEN Returned(ValueAt(msg, TextKeys[SetMin(good)]).str)
        ELSE IF v.kind = "str" THEN Returned(v.str) ELSE Returned(<<>>)

\* the values a key of the export may hold
TextValues ==
    {VAbsent, VNull, VNum, VStr(<<>>), VStr(<<" ">>), VStr(TXT_Win1)}
        \cup {VList(fs) : fs \in SeqsUpTo(FragPool, MaxFrags)}

TypedMsgPool ==
    {("text" :> t) @@ ("message.text" :> mt) @@ ("message" :> m) @@ ("message_text" :> u) :
        t \in TextValues, mt \in {VAbsent, VStr(TXT_Chatter)},
        m \in {VAbsent, VNull, VStr(TXT_Loss2)},
        u \in {VAbsent, VStr(TXT_Chatter)}}

\* whether a read text gives a record: RESOLVED_RE on the text in one line
GivesRecord(read) ==
    /\ read.outcome = "text"
    /\ read.text # <<>>
    /\ ResolvedMatch(OneLine(read.text)).ok

InitText ==
    /\ pc = "app_text"
    /\ messages \in {<<msg>> : msg \in TypedMsgPool}
    /\ records = <<>>
    /\ idx = 1
    /\ signals = EmptyTable
    /\ resolved = <<>>
    /\ pg_signals = EmptyTable
    /\ pg_records = <<>>
    /\ equity = <<>>
    /\ current = 0
    /\ total_profit = NotCalled
    /\ peak = 0
    /\ max_dd = 0
    /\ max_dd_pct = 0
    /\ min_balance = 0
    /\ call = <<>>
    /\ ret = [app |-> Pending, page |-> Pending]

\* app.py extract_records reads the message
AppReadsText ==
    /\ pc = "app_text"
    /\ \E read \in {app_text(messages[idx])} :
           ret' = [ret EXCEPT !.app = [outcome |-> read.outcome, text |-> read.text,
                                       record |-> GivesRecord(read)]]
    /\ pc' = "page_text"
    /\ UNCHANGED <<messages, idx, signals, resolved, pg_signals, pg_records, records,
                   equity, current, total_profit, peak, max_dd, max_dd_pct,
                   min_balance, call>>

\* a page module's _extract_records reads the same message
PageReadsText ==
    /\ pc = "page_text"
    /\ \E read \in {page_text(messages[idx])} :
           ret' = [ret EXCEPT !.page = [outcome |-> read.outcome, text |-> read.text,
                                        record |-> GivesRecord(read)]]
    /\ pc' = "read"
    /\ UNCHANGED <<messages, idx, signals, resolved, pg_signals, pg_records, records,
                   equity, current, total_profit, peak, max_dd, max_dd_pct,
                   min_balance, call>>

NextText ==
    \/ AppReadsText
    \/ PageReadsText

\* one message of any shape read by app.py and by a page module
SpecText == InitText /\ [][NextText]_vars

\* the text the message holds: the first value, in the order of the keys,
\* that is a non-empty string or a list of fragments (the texts of its
\* fragments in order), the empty string when there is none
RECURSIVE FragmentsText(_)
FragmentsText(fs) ==
    IF fs = <<>> THEN <<>>
    ELSE (IF Head(fs).text = "str" THEN Head(fs).str ELSE <<>>) \o FragmentsText(Tail(fs))

HoldsText(v) == v.kind = "list" \/ (v.kind = "str" /\ v.str # <<>>)

TextHeld(msg) ==
    LET good == {k \in 1..Len(TextKeys) : HoldsText(ValueAt(msg, TextKeys[k]))}
    IN  IF good = {} THEN <<>>
        ELSE IF ValueAt(msg, TextKeys[SetMin(good)]).kind = "list"
             THEN FragmentsText(ValueAt(msg, TextKeys[SetMin(good)]).frags)
             ELSE ValueAt(msg, TextKeys[SetMin(good)]).str

\* C21: the text accessor returns the first value, in the fixed key order,
\* that is a non-empty string, the concatenation of the fragments' text for
\* a list of fragments, and the empty string when nothing matches; it never
\* raises, whatever the type of the value under the text key; app.py and the
\* page modules obtain the same text for the same message.
C21_SameTextNeverRaises ==
    /\ ret.app.outcome # "pending" =>
           ret.app.outcome = "text" /\ ret.app.text = TextHeld(messages[1])
    /\ ret.page.outcome # "pending" =>
           /\ ret.page.outcome = "text" /\ ret.page.text = TextHeld(messages[1])
           /\ ret.page.text = ret.app.text

\* the page modules never raise, and return the first string of the four
\* keys that is not blank
C21_PageAccessorNeverRaises ==
    ret.page.outcome # "pending" =>
        /\ ret.page.outcome = "text"
        /\ \A k \in 1..Len(TextKeys) :
               /\ ValueAt(messages[1], TextKeys[k]).kind = "str"
               /\ Strip(ValueAt(messages[1], TextKeys[k]).str) # <<>>
               /\ \A j \in 1..(k - 1) :
                      \/ ValueAt(messages[1], TextKeys[j]).kind # "str"
                      \/ Strip(ValueAt(messages[1], TextKeys[j]).str) = <<>>
               => ret.page.text = ValueAt(messages[1], TextKeys[k]).str

\* a message whose only text is a string under "text" is read alike by all
C21_SameTextOnPlainString ==
    pc = "read" /\ ValueAt(messages[1], "text").kind = "str"
        /\ Strip(ValueAt(messages[1], "text").str) # <<>> =>
        /\ ret.app.outcome = "text" /\ ret.page.outcome = "text"
        /\ ret.app.text = ret.page.text
        /\ ret.app.record = ret.page.record

\* time is written HH:MM:SS and hour is the number its first two digits write
HourIsOfTime(rec) ==
    /\ Len(rec.time) = 8
    /\ TimeAt(rec.time, 1)
    /\ rec.hour = 10 * DigitVal(rec.time[1]) + DigitVal(rec.time[2])

\* C22: every extracted record has a time of the form HH:MM:SS and an hour
\* that is the integer value of the time's first two digits and lies in
\* 0..23.
C22_HourOfDay ==
    /\ \A k \in 1..Len(resolved) :
           HourIsOfTime(resolved[k]) /\ resolved[k].hour \in 0..23
    /\ \A k \in 1..Len(pg_records) :
           HourIsOfTime(pg_records[k]) /\ pg_records[k].hour \in 0..23

\* the time is HH:MM:SS and the hour its first two digits, in 0..99
C22_HourFromTime ==
    /\ \A k \in 1..Len(resolved) :
           HourIsOfTime(resolved[k]) /\ resolved[k].hour \in 0..99
    /\ \A k \in 1..Len(pg_records) :
           HourIsOfTime(pg_records[k]) /\ pg_records[k].hour \in 0..99

(***************************************************************************)
(* The planning figures of the risk page (gestao_risco.render_from_json    *)
(* after the rates) and the projection of build_resumo_params_from_json,   *)
(* over capitals, ladders, record lists and message dates.  Money is in    *)
(* 1/1000; a quotient that is not rounded is <<numerator, denominator>>.   *)
(***************************************************************************)
MaxDays == 3

\* the "70% of it": capital_min_recomendado * 0.7, the factor as 7 / 10
AcceptShare == 7

\* max_loss_c1 * 5
CapitalMultiple == 5

\* the loss of one cycle, not multiplied
capital_min_recomendado_OneCycle(stakes) == SumFirst(stakes, Len(stakes))

\* capital_min_recomendado = sum(stakes_c1) * 5
capital_min_recomendado(stakes) == CapitalMultiple * SumFirst(stakes, Len(stakes))

\* status_capital: ADEQUADO, ACEITAVEL (written with an accent in the source)
\* or INSUFICIENTE
status_capital(capital, stakes) ==
    IF capital >= capital_min_recomendado(stakes) THEN "ADEQUADO"
    ELSE IF 10 * capital >= AcceptShare * capital_min_recomendado(stakes)
         THEN "ACEITAVEL"
    ELSE "INSUFICIENTE"

\* the capitals: around the two thresholds of the ladder of the page and of
\* the ladder of its first stake alone, none, and the capital of the page
Capitals ==
    {0, 7000 - 1, 7000, 10000 - 1, 10000, 54390 - 1, 54390, 77700 - 1, 77700,
     capital_inicial}

\* the record lists of the projections and of the streaks
PlanRecords(n) == SeqsUpTo(RecPool, n)

\* the days of January 2024 on which the messages of the export are dated
DateSets == SUBSET (1..MaxDays)

PlanCalls ==
    {[kind |-> "capital", capital |-> c, stakes |-> st, dates |-> {}] :
        c \in Capitals, st \in Ladders}
    \cup {[kind |-> "projection", capital |-> capital_inicial, stakes |-> stakes_c1,
           dates |-> ds] : ds \in DateSets}

\* greatest common divisor of two naturals, b > 0
RECURSIVE Gcd(_, _)
Gcd(a, b) == IF a % b = 0 THEN b ELSE Gcd(b, a % b)

Abs(x) == IF x < 0 THEN 0 - x ELSE x

\* the float n / d, d > 0, in lowest terms
Quotient(n, d) == <<n \div Gcd(Abs(n), d), d \div Gcd(Abs(n), d)>>

\* sum(profits) of gestao_risco: calculate_profit over the records
RECURSIVE SumCalculated(_)
SumCalculated(recs) ==
    IF recs = <<>> THEN 0
    ELSE SumCalculated(SubSeq(recs, 1, Len(recs) - 1))
         + calculate_profit(recs[Len(recs)].result, recs[Len(recs)].gale_level,
                            stakes_c1, payout_minimo)

\* the days of a month and the working days of one, as the page takes them
MonthDays == 30
WorkDays == 22

\* lucro_diario_atual = sum(profits) / 30 if len(profits) > 0 else 0
lucro_diario_atual(recs) ==
    IF Len(recs) > 0 THEN Quotient(SumCalculated(recs), MonthDays) ELSE ZeroRatio

\* the three projections of gestao_risco: x 22 x 1.5, x 22, x 22 x 0.7
risco_projecoes(recs) ==
    [outcome |-> "projected",
     lucro_diario_atual |-> lucro_diario_atual(recs),
     proj_otimista |-> Quotient(lucro_diario_atual(recs)[1] * WorkDays * 15,
                                lucro_diario_atual(recs)[2] * 10),
     proj_realista |-> Quotient(lucro_diario_atual(recs)[1] * WorkDays,
                                lucro_diario_atual(recs)[2]),
     proj_pessimista |-> Quotient(lucro_diario_atual(recs)[1] * WorkDays * 7,
                                  lucro_diario_atual(recs)[2] * 10)]

\* the records with the payout column of app.py, no signal having matched
WithNoPayout(recs) ==
    [k \in 1..Len(recs) |->
        [result |-> recs[k].result, gale_level |-> recs[k].gale_level,
         payout |-> NoPayout]]

\* n_days = max(1, len(dates))
n_days(dates) == IF Cardinality(dates) > 1 THEN Cardinality(dates) ELSE 1

\* build_resumo_params_from_json: daily_profit, proj_min and proj_max before
\* they are rounded
resumo_projecoes(recs, dates) ==
    IF recs = <<>> THEN [outcome |-> "no_data"]
    ELSE [outcome |-> "projected",
          daily_profit |->
              Quotient(SumProfits(WithNoPayout(recs), default_stakes, default_payout),
                       n_days(dates)),
          proj_min |->
              Quotient(SumProfits(WithNoPayout(recs), default_stakes, default_payout)
                           * WorkDays, n_days(dates)),
          proj_max |->
              Quotient(SumProfits(WithNoPayout(recs), default_stakes, default_payout)
                           * WorkDays * 17, n_days(dates) * 10)]

\* loss_rate taken as the win rate
loss_rate_of_WinRate(win_rate) == win_rate

\* loss_rate = 1 - win_rate
loss_rate_of(win_rate) == <<win_rate[2] - win_rate[1], win_rate[2]>>

RECURSIVE Pow(_, _)
Pow(x, n) == IF n = 0 THEN 1 ELSE x * Pow(x, n - 1)

\* prob_N_loss = loss_rate ** N * 100, N = 2..5
prob_loss(loss_rate) ==
    [n \in 2..5 |-> <<100 * Pow(loss_rate[1], n), Pow(loss_rate[2], n)>>]

InitPlan ==
    /\ pc = "plan"
    /\ \/ /\ call \in {c \in PlanCalls : c.kind = "capital"}
          /\ records = <<>>
       \/ /\ call \in {c \in PlanCalls : c.kind = "projection"}
          /\ records \in PlanRecords(MaxOps)
       \/ /\ call = [kind |-> "streak", capital |-> capital_inicial,
                     stakes |-> stakes_c1, dates |-> {}]
          /\ records \in PlanRecords(MaxRecs)
    /\ ret = [status |-> Pending, risco |-> Pending, resumo |-> Pending,
              streak |-> Pending]
    /\ messages = <<>>
    /\ idx = 1
    /\ signals = EmptyTable
    /\ resolved = <<>>
    /\ pg_signals = EmptyTable
    /\ pg_records = <<>>
    /\ equity = <<>>
    /\ current = 0
    /\ total_profit = NotCalled
    /\ peak = 0
    /\ max_dd = 0
    /\ max_dd_pct = 0
    /\ min_balance = 0

\* gestao_risco.render_from_json: the recommended capital and its status
AssessCapital ==
    /\ pc = "plan"
    /\ call.kind = "capital"
    /\ ret' = [ret EXCEPT !.status =
                  [outcome |-> "assessed",
                   capital_min_recomendado |-> capital_min_recomendado(call.stakes),
                   status_capital |-> status_capital(call.capital, call.stakes)]]
    /\ pc' = "planned"
    /\ UNCHANGED <<messages, idx, signals, resolved, pg_signals, pg_records, records,
                   equity, current, total_profit, peak, max_dd, max_dd_pct,
                   min_balance, call>>

\* gestao_risco.render_from_json: the monthly projections
ProjectRisco ==
    /\ pc = "plan"
    /\ call.kind = "projection"
    /\ ret.risco.outcome = "pending"
    /\ ret' = [ret EXCEPT !.risco = IF records = <<>> THEN [outcome |-> "no_data"]
                                    ELSE risco_projecoes(records)]
    /\ UNCHANGED <<pc, messages, idx, signals, resolved, pg_signals, pg_records,
                   records, equity, current, total_profit, peak, max_dd, max_dd_pct,
                   min_balance, call>>

\* build_resumo_params_from_json: the projection of the summary
ProjectResumo ==
    /\ pc = "plan"
    /\ call.kind = "projection"
    /\ ret.resumo.outcome = "pending"
    /\ ret' = [ret EXCEPT !.resumo = resumo_projecoes(records, call.dates)]
    /\ UNCHANGED <<pc, messages, idx, signals, resolved, pg_signals, pg_records,
                   records, equity, current, total_profit, peak, max_dd, max_dd_pct,
                   min_balance, call>>

\* gestao_risco.render_from_json: the loss rate and the streak probabilities
StreakProbabilities ==
    /\ pc = "plan"
    /\ call.kind = "streak"
    /\ ret' = [ret EXCEPT !.streak =
                  IF records = <<>> THEN [outcome |-> "no_data"]
                  ELSE [outcome |-> "computed",
                        loss_rate |-> loss_rate_of(risco_rates(records).win_rate),
                        prob_loss |->
                            prob_loss(loss_rate_of(risco_rates(records).win_rate))]]
    /\ pc' = "planned"
    /\ UNCHANGED <<messages, idx, signals, resolved, pg_signals, pg_records, records,
                   equity, current, total_profit, peak, max_dd, max_dd_pct,
                   min_balance, call>>

NextPlan ==
    \/ AssessCapital
    \/ ProjectRisco
    \/ ProjectResumo
    \/ StreakProbabilities

SpecPlan == InitPlan /\ [][NextPlan]_vars

\* C23: the minimum recommended capital is 5 times the sum of the stake
\* ladder; the status is adequate when capital >= recommendation, acceptable
\* when recommendation > capital >= 70% of it, insufficient otherwise;
\* exactly one status for every capital and ladder.
C23_CapitalStatus ==
    ret.status.outcome = "assessed" =>
        /\ ret.status.capital_min_recomendado = 5 * LadderSum(call.stakes, 1, Len(call.stakes))
        /\ ret.status.status_capital \in {"ADEQUADO", "ACEITAVEL", "INSUFICIENTE"}
        /\ ret.status.status_capital = "ADEQUADO"
               <=> call.capital >= 5 * LadderSum(call.stakes, 1, Len(call.stakes))
        /\ ret.status.status_capital = "ACEITAVEL"
               <=> /\ call.capital < 5 * LadderSum(call.stakes, 1, Len(call.stakes))
                   /\ 100 * call.capital
                          >= 70 * 5 * LadderSum(call.stakes, 1, Len(call.stakes))
        /\ ret.status.status_capital = "INSUFICIENTE"
               <=> 100 * call.capital
                       < 70 * 5 * LadderSum(call.stakes, 1, Len(call.stakes))

C23_Witness ==
    /\ pc = "planned"
    /\ call.kind = "capital"
    /\ call.stakes = stakes_c1
    /\ call.capital = 54390
    /\ ret.status.capital_min_recomendado = 77700
    /\ ret.status.status_capital = "ACEITAVEL"

\* the day count of the analysed messages, 30 when there is none
ElapsedDays(dates) == IF dates = {} THEN 30 ELSE Cardinality(dates)

\* num/den scaled by m/10
TimesTenths(r, m) == <<r[1] * m, r[2] * 10>>

\* C24: the daily profit of the monthly projection is the total simulated
\* profit divided by the number of days of the analysed messages when there
\* is one and by 30 only when there is none, in gestao_risco and in the
\* summary of app.py; the optimistic, realistic and pessimistic projections
\* are that daily profit x 22 x 1.5, x 1.0 and x 0.7.
C24_DailyProfitByElapsedDays ==
    /\ ret.risco.outcome = "projected" =>
           /\ RatioEq(ret.risco.lucro_diario_atual,
                      <<SumCalculated(records), ElapsedDays(call.dates)>>)
           /\ RatioEq(ret.risco.proj_otimista,
                      TimesTenths(<<SumCalculated(records) * 22,
                                    ElapsedDays(call.dates)>>, 15))
           /\ RatioEq(ret.risco.proj_realista,
                      <<SumCalculated(records) * 22, ElapsedDays(call.dates)>>)
           /\ RatioEq(ret.risco.proj_pessimista,
                      TimesTenths(<<SumCalculated(records) * 22,
                                    ElapsedDays(call.dates)>>, 7))
    /\ ret.resumo.outcome = "projected" =>
           RatioEq(ret.resumo.daily_profit,
                   <<SumProfits(WithNoPayout(records), default_stakes, default_payout),
                     ElapsedDays(call.dates)>>)

\* the projections of gestao_risco are its daily profit x 22 x 1.5, x 1.0, x 0.7
C24_RiscoMultipliers ==
    ret.risco.outcome = "projected" =>
        /\ RatioEq(ret.risco.proj_otimista,
                   TimesTenths(<<ret.risco.lucro_diario_atual[1] * 22,
                                 ret.risco.lucro_diario_atual[2]>>, 15))
        /\ RatioEq(ret.risco.proj_realista,
                   <<ret.risco.lucro_diario_atual[1] * 22,
                     ret.risco.lucro_diario_atual[2]>>)
        /\ RatioEq(ret.risco.proj_pessimista,
                   TimesTenths(<<ret.risco.lucro_diario_atual[1] * 22,
                                 ret.risco.lucro_diario_atual[2]>>, 7))

\* gestao_risco divides by 30 whatever the dates of the messages
C24_RiscoDividesByThirty ==
    ret.risco.outcome = "projected" =>
        RatioEq(ret.risco.lucro_diario_atual, <<SumCalculated(records), 30>>)

\* the summary divides by the number of distinct dates and by 1 when there is
\* none; its upper projection is the lower one x 1.7
C24_ResumoDividesByDates ==
    ret.resumo.outcome = "projected" =>
        /\ RatioEq(ret.resumo.daily_profit,
                   <<SumProfits(WithNoPayout(records), default_stakes, default_payout),
                     IF call.dates = {} THEN 1 ELSE Cardinality(call.dates)>>)
        /\ RatioEq(ret.resumo.proj_min,
                   <<ret.resumo.daily_profit[1] * 22, ret.resumo.daily_profit[2]>>)
        /\ RatioEq(ret.resumo.proj_max, TimesTenths(ret.resumo.proj_min, 17))

\* the timestamps given to the date parser
D_EpochSeconds == <<"1", "7", "0", "4", "1", "1", "7", "9", "0", "0">>    \* 2024-01-01 as seconds
D_EpochMillis == <<"1", "7", "0", "4", "2", "0", "4", "3", "0", "0", "0", "0", "0">>    \* 2024-01-02 as milliseconds
D_EpochPadded == <<" ", "1", "7", "0", "4", "1", "1", "7", "9", "0", "0", " ">>    \* seconds between blanks
D_EpochEdge == <<"1", "0", "0", "0", "0", "0", "0", "0", "0", "0", "0", "0", "0">>    \* 10^12, taken as seconds
D_EpochEdgeNext == <<"1", "0", "0", "0", "0", "0", "0", "0", "0", "0", "0", "0", "1">>    \* 10^12 + 1, taken as milliseconds
D_EightDigits == <<"2", "0", "2", "4", "0", "1", "0", "5">>    \* eight digits
D_FifteenDigits == <<"3", "0", "0", "0", "0", "1", "0", "1", "0", "1", "2", "0", "0", "0", "0">>    \* fifteen digits
D_Zero == <<"0">>    \* the epoch itself
D_IsoSeconds == <<"2", "0", "2", "4", "-", "0", "1", "-", "0", "5", "T", "1", "0", ":", "0", "0", ":", "0", "0">>    \* ISO with T
D_IsoZulu == <<"2", "0", "2", "4", "-", "0", "1", "-", "0", "5", "T", "1", "0", ":", "0", "0", ":", "0", "0", "Z">>    \* ISO with T and Z
D_IsoSpace == <<"2", "0", "2", "4", "-", "0", "1", "-", "0", "5", " ", "1", "0", ":", "0", "0", ":", "0", "0">>    \* ISO with a blank
D_IsoDay == <<"2", "0", "2", "4", "-", "0", "1", "-", "0", "5">>    \* ISO date
D_IsoLater == <<"2", "0", "2", "4", "-", "0", "1", "-", "0", "6", "T", "1", "0", ":", "0", "0", ":", "0", "0">>    \* the day after
D_IsoMinutes == <<"2", "0", "2", "4", "-", "0", "1", "-", "0", "5", "T", "1", "0", ":", "0", "0">>    \* ISO without seconds
D_Brazilian == <<"0", "5", "/", "0", "1", "/", "2", "0", "2", "4">>    \* day/month/year
D_BadDay == <<"2", "0", "2", "4", "-", "0", "2", "-", "3", "0">>    \* no such day
D_Word == <<"a", "b", "c">>    \* no date

DateTexts ==
    {<<>>, D_EpochSeconds, D_EpochMillis, D_EpochPadded, D_EpochEdge,
     D_EpochEdgeNext, D_EightDigits, D_FifteenDigits, D_Zero,
     D_IsoSeconds, D_IsoZulu, D_IsoSpace, D_IsoDay,
     D_IsoLater, D_IsoMinutes, D_Brazilian, D_BadDay, D_Word}

\* a date is <<year, month, day>>; NoDate is the None of the parser

LeapYear(y) == (y % 4 = 0 /\ y % 100 # 0) \/ y % 400 = 0

DaysIn(y, m) ==
    IF m = 2 THEN (IF LeapYear(y) THEN 29 ELSE 28)
    ELSE IF m \in {4, 6, 9, 11} THEN 30 ELSE 31

\* datetime(y, m, d, H, M, S).date(), the ValueError of a field out of range
\* taken as None
MakeDate(y, m, d, H, M, S) ==
    IF /\ y \in 1..9999 /\ m \in 1..12 /\ d >= 1 /\ d <= DaysIn(y, m)
       /\ H \in 0..23 /\ M \in 0..59 /\ S \in 0..59
    THEN <<y, m, d>> ELSE NoDate

\* the date of day z after 1970-01-01
CivilFromDays(z) ==
    LET era == (z + 719468) \div 146097
        doe == (z + 719468) % 146097
        yoe == (doe - doe \div 1460 + doe \div 36524 - doe \div 146096) \div 365
        doy == doe - (365 * yoe + yoe \div 4 - yoe \div 100)
        mp == (5 * doy + 2) \div 153
        d == doy - (153 * mp + 2) \div 5 + 1
        m == IF mp < 10 THEN mp + 3 ELSE mp - 9
    IN  <<yoe + era * 400 + (IF m <= 2 THEN 1 ELSE 0), m, d>>

\* the digits of int(s2): leading zeros dropped
RECURSIVE Significant(_)
Significant(ds) ==
    IF Len(ds) > 1 /\ Head(ds) = "0" THEN Significant(Tail(ds)) ELSE ds

\* a > b for two integers written without leading zeros
RECURSIVE DigitsGreater(_, _)
DigitsGreater(a, b) ==
    IF Len(a) # Len(b) THEN Len(a) > Len(b)
    ELSE IF a = <<>> THEN FALSE
    ELSE IF Head(a) # Head(b) THEN DigitVal(Head(a)) > DigitVal(Head(b))
    ELSE DigitsGreater(Tail(a), Tail(b))

\* <<quotient, remainder>> of the integer written ds by d
RECURSIVE LongDiv(_, _)
LongDiv(ds, d) ==
    IF ds = <<>> THEN <<0, 0>>
    ELSE LET p == Only({LongDiv(SubSeq(ds, 1, Len(ds) - 1), d)})
             x == p[2] * 10 + DigitVal(ds[Len(ds)])
         IN  <<p[1] * 10 + x \div d, x % d>>

\* 1_000_000_000_000, above which the integer is taken as milliseconds
MillisAbove == <<"1", "0", "0", "0", "0", "0", "0", "0", "0", "0", "0", "0", "0">>

\* the last second and the last millisecond of the year 9999, after which
\* datetime.fromtimestamp raises
LastSecond == <<"2", "5", "3", "4", "0", "2", "3", "0", "0", "7", "9", "9">>
LastMilli == <<"2", "5", "3", "4", "0", "2", "3", "0", "0", "7", "9", "9", "9", "9", "9">>

SecondsPerDay == 86400

\* datetime.fromtimestamp(n / 1000.0).date() or datetime.fromtimestamp(n).date()
\* for the digits s2, in UTC; NoDate where fromtimestamp raises
epoch_date(s2) ==
    IF DigitsGreater(Significant(s2), MillisAbove)
    THEN IF DigitsGreater(Significant(s2), LastMilli) THEN NoDate
         ELSE CivilFromDays(LongDiv(Significant(s2), SecondsPerDay * 1000)[1])
    ELSE IF DigitsGreater(Significant(s2), LastSecond) THEN NoDate
         ELSE CivilFromDays(LongDiv(Significant(s2), SecondsPerDay)[1])

\* digits and digits == s2
AllDigits(s2) == s2 # <<>> /\ \A i \in 1..Len(s2) : s2[i] \in Digits

\* s is written as the shape: a digit where the shape has "#", the same
\* character elsewhere (fields of full width, as every timestamp here has)
Shaped(s, shape) ==
    /\ Len(s) = Len(shape)
    /\ \A i \in 1..Len(s) : IF shape[i] = "#" THEN s[i] \in Digits ELSE s[i] = shape[i]

Field(s, i, w) == IntOf(SubSeq(s, i, i + w - 1))

S_DateTimeT == <<"#", "#", "#", "#", "-", "#", "#", "-", "#", "#", "T", "#", "#", ":", "#", "#", ":", "#", "#">>
S_DateTimeBlank == <<"#", "#", "#", "#", "-", "#", "#", "-", "#", "#", " ", "#", "#", ":", "#", "#", ":", "#", "#">>
S_Date == <<"#", "#", "#", "#", "-", "#", "#", "-", "#", "#">>
S_DayMonthYear == <<"#", "#", "/", "#", "#", "/", "#", "#", "#", "#">>
S_BasicDate == <<"#", "#", "#", "#", "#", "#", "#", "#">>
S_Hour == <<"#", "#">>
S_HourMinute == <<"#", "#", ":", "#", "#">>
S_HourMinuteSecond == <<"#", "#", ":", "#", "#", ":", "#", "#">>
S_BasicHourMinute == <<"#", "#", "#", "#">>
S_BasicHourMinuteSecond == <<"#", "#", "#", "#", "#", "#">>

\* datetime.strptime(s2, fmt).date() for the four formats in their order,
\* NoDate where it raises
strptime_date(s2, fmt) ==
    CASE fmt = 1 -> IF Shaped(s2, S_DateTimeT)
                    THEN MakeDate(Field(s2, 1, 4), Field(s2, 6, 2), Field(s2, 9, 2),
                                  Field(s2, 12, 2), Field(s2, 15, 2), Field(s2, 18, 2))
                    ELSE NoDate
      [] fmt = 2 -> IF Shaped(s2, S_DateTimeBlank)
                    THEN MakeDate(Field(s2, 1, 4), Field(s2, 6, 2), Field(s2, 9, 2),
                                  Field(s2, 12, 2), Field(s2, 15, 2), Field(s2, 18, 2))
                    ELSE NoDate
      [] fmt = 3 -> IF Shaped(s2, S_Date)
                    THEN MakeDate(Field(s2, 1, 4), Field(s2, 6, 2), Field(s2, 9, 2), 0, 0, 0)
                    ELSE NoDate
      [] fmt = 4 -> IF Shaped(s2, S_DayMonthYear)
                    THEN MakeDate(Field(s2, 7, 4), Field(s2, 4, 2), Field(s2, 1, 2), 0, 0, 0)
                    ELSE NoDate

\* the time of day after the separator of an ISO timestamp: <<H, M, S>>, or
\* <<>> where it is none; basic: the interpreter reads the forms without
\* colons (Python 3.11 on)
iso_time(t, basic) ==
    IF Shaped(t, S_Hour) THEN <<Field(t, 1, 2), 0, 0>>
    ELSE IF Shaped(t, S_HourMinute) THEN <<Field(t, 1, 2), Field(t, 4, 2), 0>>
    ELSE IF Shaped(t, S_HourMinuteSecond)
         THEN <<Field(t, 1, 2), Field(t, 4, 2), Field(t, 7, 2)>>
    ELSE IF basic /\ Shaped(t, S_BasicHourMinute)
         THEN <<Field(t, 1, 2), Field(t, 3, 2), 0>>
    ELSE IF basic /\ Shaped(t, S_BasicHourMinuteSecond)
         THEN <<Field(t, 1, 2), Field(t, 3, 2), Field(t, 5, 2)>>
    ELSE <<>>

\* datetime.fromisoformat(s2).date(), NoDate where it raises: the date is the
\* first ten characters when the fifth is "-" and the first eight otherwise,
\* one character of any kind separates it from the time
fromisoformat_date(s2, basic) ==
    LET ext == Len(s2) >= 5 /\ s2[5] = "-"
        dlen == IF ext THEN 10 ELSE 8
        day == IF Len(s2) < dlen THEN <<>> ELSE SubSeq(s2, 1, dlen)
        time == IF Len(s2) = dlen THEN <<0, 0, 0>>
                ELSE IF Len(s2) < dlen + 2 THEN <<>>
                ELSE iso_time(SubSeq(s2, dlen + 2, Len(s2)), basic)
    IN  IF time = <<>> THEN NoDate
        ELSE IF Shaped(day, S_Date)
             THEN MakeDate(Field(day, 1, 4), Field(day, 6, 2), Field(day, 9, 2),
                           time[1], time[2], time[3])
        ELSE IF basic /\ Shaped(day, S_BasicDate)
             THEN MakeDate(Field(day, 1, 4), Field(day, 5, 2), Field(day, 7, 2),
                           time[1], time[2], time[3])
        ELSE NoDate

\* if s2.endswith("Z"): s2 = s2[:-1]
StripZulu(s2) ==
    IF s2 # <<>> /\ s2[Len(s2)] = "Z" THEN SubSeq(s2, 1, Len(s2) - 1) ELSE s2

\* the formats in their order, then fromisoformat
formats_date(s2, basic) ==
    IF \E f \in 1..4 : strptime_date(s2, f) # NoDate
    THEN strptime_date(s2, SetMin({f \in 1..4 : strptime_date(s2, f) # NoDate}))
    ELSE fromisoformat_date(s2, basic)

\* try_parse_iso_date for a string s
try_parse_iso_date(s, basic) ==
    IF s = <<>> THEN NoDate
    ELSE IF AllDigits(Strip(s)) /\ epoch_date(Strip(s)) # NoDate THEN epoch_date(Strip(s))
    ELSE formats_date(StripZulu(Strip(s)), basic)

\* the timestamp keys of a message, in the order extract_records reads them
AppDateKeys ==
    <<"date", "message.date", "message.date_unixtime", "message.date_unixtime_str">>

\* one message holding a resolved line, with its timestamp keys
DatedMsg(d, md, u, us) ==
    ("date" :> d) @@ ("message.date" :> md) @@ ("message.date_unixtime" :> u)
        @@ ("message.date_unixtime_str" :> us) @@ ("message.date_unixtime_ms" :> VAbsent)
        @@ ("text" :> VStr(TXT_Win1)) @@ ("message" :> VAbsent)

DatedMsgPool ==
    {DatedMsg(d, md, u, us) :
        d \in {VAbsent, VNull, VStr(D_Word), VStr(D_IsoSeconds)},
        md \in {VAbsent, VStr(D_Word), VStr(D_IsoLater)},
        u \in {VAbsent, VStr(D_EpochSeconds)},
        us \in {VAbsent, VStr(D_EpochMillis)}}

\* key in msg and msg.get(key) is not None
HasValue(msg, key) == msg[key].kind \notin {"absent", "null"}

\* msg.get("text") or msg.get("message") or "", a string in every message here
TextOrMessage(msg) ==
    IF msg["text"].kind = "str" /\ msg["text"].str # <<>> THEN msg["text"].str
    ELSE IF msg["message"].kind = "str" THEN msg["message"].str
    ELSE <<>>

\* extract_records: the first key that is present and not None is parsed and
\* the loop is left; the text is parsed when that gave None
app_msg_date(msg, basic) ==
    LET present == {k \in 1..Len(AppDateKeys) : HasValue(msg, AppDateKeys[k])}
        keyed == IF present = {} THEN NoDate
                 ELSE try_parse_iso_date(msg[AppDateKeys[SetMin(present)]].str, basic)
    IN  IF keyed # NoDate THEN keyed
        ELSE try_parse_iso_date(TextOrMessage(msg), basic)

QualidadeDateKeys ==
    <<"date", "message.date", "message.date_unixtime", "message.date_unixtime_ms">>

\* the three formats of qualidade_sala._get_date_from_msg on a string
qualidade_strptime(val) ==
    IF \E f \in 1..3 : strptime_date(val, f) # NoDate
    THEN strptime_date(val, SetMin({f \in 1..3 : strptime_date(val, f) # NoDate}))
    ELSE NoDate

\* qualidade_sala._get_date_from_msg: the first key whose string parses
qualidade_msg_date(msg) ==
    LET parsed == {k \in 1..Len(QualidadeDateKeys) :
                      /\ msg[QualidadeDateKeys[k]].kind = "str"
                      /\ qualidade_strptime(msg[QualidadeDateKeys[k]].str) # NoDate}
    IN  IF parsed = {} THEN NoDate
        ELSE qualidade_strptime(msg[QualidadeDateKeys[SetMin(parsed)]].str)

PadroesDateKeys == <<"date", "message.date">>

\* val.replace("Z", "")
RECURSIVE WithoutZulu(_)
WithoutZulu(s) ==
    IF s = <<>> THEN <<>>
    ELSE IF Head(s) = "Z" THEN WithoutZulu(Tail(s))
    ELSE <<Head(s)>> \o WithoutZulu(Tail(s))

\* padroes_tendencias._get_date_from_msg: the first key whose string parses
padroes_msg_date(msg, basic) ==
    LET parsed == {k \in 1..Len(PadroesDateKeys) :
                      /\ msg[PadroesDateKeys[k]].kind = "str"
                      /\ fromisoformat_date(WithoutZulu(msg[PadroesDateKeys[k]].str),
                                            basic) # NoDate}
    IN  IF parsed = {} THEN NoDate
        ELSE fromisoformat_date(WithoutZulu(msg[PadroesDateKeys[SetMin(parsed)]].str),
                                basic)

Dated(d) == [outcome |-> "date", date |-> d]

InitDate ==
    /\ pc = "date"
    /\ \/ /\ call \in [kind : {"parse"}, input : DateTexts, basic : BOOLEAN]
          /\ messages = <<>>
       \/ /\ call \in [kind : {"message"}, input : {<<>>}, basic : BOOLEAN]
          /\ messages \in {<<m>> : m \in DatedMsgPool}
    /\ ret = [parsed |-> Pending, app |-> Pending, qualidade |-> Pending,
              padroes |-> Pending]
    /\ idx = 1
    /\ signals = EmptyTable
    /\ resolved = <<>>
    /\ pg_signals = EmptyTable
    /\ pg_records = <<>>
    /\ records = <<>>
    /\ equity = <<>>
    /\ current = 0
    /\ total_profit = NotCalled
    /\ peak = 0
    /\ max_dd = 0
    /\ max_dd_pct = 0
    /\ min_balance = 0

\* try_parse_iso_date(s)
TryParseIsoDate ==
    /\ pc = "date"
    /\ call.kind = "parse"
    /\ ret' = [ret EXCEPT !.parsed = Dated(try_parse_iso_date(call.input, call.basic))]
    /\ pc' = "parsed"
    /\ UNCHANGED <<messages, idx, signals, resolved, pg_signals, pg_records, records,
                   equity, current, total_profit, peak, max_dd, max_dd_pct,
                   min_balance, call>>

\* extract_records: the msg_date of the record of the message
AppMessageDate ==
    /\ pc = "date"
    /\ call.kind = "message"
    /\ ret.app.outcome = "pending"
    /\ ret' = [ret EXCEPT !.app = Dated(app_msg_date(messages[1], call.basic))]
    /\ UNCHANGED <<pc, messages, idx, signals, resolved, pg_signals, pg_records,
                   records, equity, current, total_profit, peak, max_dd, max_dd_pct,
                   min_balance, call>>

\* qualidade_sala._extract_records: the msg_date of the record of the message
QualidadeMessageDate ==
    /\ pc = "date"
    /\ call.kind = "message"
    /\ ret.qualidade.outcome = "pending"
    /\ ret' = [ret EXCEPT !.qualidade = Dated(qualidade_msg_date(messages[1]))]
    /\ UNCHANGED <<pc, messages, idx, signals, resolved, pg_signals, pg_records,
                   records, equity, current, total_profit, peak, max_dd, max_dd_pct,
                   min_balance, call>>

\* padroes_tendencias._extract_records: the msg_date of the record of the message
PadroesMessageDate ==
    /\ pc = "date"
    /\ call.kind = "message"
    /\ ret.padroes.outcome = "pending"
    /\ ret' = [ret EXCEPT !.padroes = Dated(padroes_msg_date(messages[1], call.basic))]
    /\ UNCHANGED <<pc, messages, idx, signals, resolved, pg_signals, pg_records,
                   records, equity, current, total_profit, peak, max_dd, max_dd_pct,
                   min_balance, call>>

NextDate ==
    \/ TryParseIsoDate
    \/ AppMessageDate
    \/ QualidadeMessageDate
    \/ PadroesMessageDate

SpecDate == InitDate /\ [][NextDate]_vars

\* C25: the strategies of try_parse_iso_date are tried in a fixed order and
\* the first success wins; an input made only of digits is settled by the
\* epoch strategy alone (milliseconds above 10^12, seconds otherwise), the
\* formats and the ISO reading never being tried on it; every input gives a
\* date or the unparseable value.
C25_DigitsSettledByEpoch ==
    ret.parsed.outcome = "date" =>
        /\ ret.parsed.date = NoDate \/ Len(ret.parsed.date) = 3
        /\ AllDigits(Strip(call.input)) => ret.parsed.date = epoch_date(Strip(call.input))

\* every input gives a date or the unparseable value, a string of digits
\* whose epoch reading succeeds gives that reading, and any other input gives
\* the first of the four formats that reads it, the ISO reading after them
C25_FirstSuccessWins ==
    ret.parsed.outcome = "date" =>
        /\ ret.parsed.date = NoDate
               \/ /\ Len(ret.parsed.date) = 3
                  /\ ret.parsed.date[2] \in 1..12
                  /\ ret.parsed.date[3] \in 1..31
        /\ call.input = <<>> => ret.parsed.date = NoDate
        /\ AllDigits(Strip(call.input)) /\ epoch_date(Strip(call.input)) # NoDate
               => ret.parsed.date = epoch_date(Strip(call.input))
        /\ \A f \in 1..4 :
               /\ ~AllDigits(Strip(call.input))
               /\ strptime_date(StripZulu(Strip(call.input)), f) # NoDate
               /\ \A g \in 1..(f - 1) :
                      strptime_date(StripZulu(Strip(call.input)), g) = NoDate
               => ret.parsed.date = strptime_date(StripZulu(Strip(call.input)), f)

\* the known dates of the timestamps
C25_KnownDates ==
    ret.parsed.outcome = "date" =>
        /\ call.input \in {D_EpochSeconds, D_EpochPadded} => ret.parsed.date = <<2024, 1, 1>>
        /\ call.input = D_EpochMillis => ret.parsed.date = <<2024, 1, 2>>
        /\ call.input = D_EpochEdge => ret.parsed.date = NoDate
        /\ call.input = D_EpochEdgeNext => ret.parsed.date = <<2001, 9, 9>>
        /\ call.input = D_EightDigits => ret.parsed.date = <<1970, 8, 23>>
        /\ call.input = D_Zero => ret.parsed.date = <<1970, 1, 1>>
        /\ call.input \in {D_IsoSeconds, D_IsoZulu, D_IsoSpace, D_IsoDay, D_IsoMinutes,
                           D_Brazilian}
               => ret.parsed.date = <<2024, 1, 5>>
        /\ call.input \in {D_BadDay, D_Word, <<>>} => ret.parsed.date = NoDate
        /\ call.input = D_FifteenDigits
               => ret.parsed.date = IF call.basic THEN <<3000, 1, 1>> ELSE NoDate

\* the readings of the timestamp keys of a message that give a date, in the
\* order of the keys
KeyDates(msg, basic) ==
    SelectSeq([k \in 1..Len(AppDateKeys) |->
                  IF msg[AppDateKeys[k]].kind = "str"
                  THEN try_parse_iso_date(msg[AppDateKeys[k]].str, basic)
                  ELSE NoDate],
              LAMBDA d : d # NoDate)

\* C26: the msg_date of a record is obtained by trying the timestamp keys in
\* their order until one parses: when an earlier key is present but does not
\* parse and a later key does, msg_date is the date of the later key; the
\* text is tried only when no key parses.
C26_LaterKeyWhenEarlierFails ==
    ret.app.outcome = "date" =>
        ret.app.date = IF KeyDates(messages[1], call.basic) # <<>>
                       THEN KeyDates(messages[1], call.basic)[1]
                       ELSE try_parse_iso_date(TextOrMessage(messages[1]), call.basic)

\* extract_records reads one key only, the first that is present and not
\* None, and goes to the text when that key does not parse
C26_AppReadsFirstPresentKey ==
    ret.app.outcome = "date" =>
        \A k \in 1..Len(AppDateKeys) :
            /\ HasValue(messages[1], AppDateKeys[k])
            /\ \A j \in 1..(k - 1) : ~HasValue(messages[1], AppDateKeys[j])
            => ret.app.date =
                   IF try_parse_iso_date(messages[1][AppDateKeys[k]].str, call.basic)
                          # NoDate
                   THEN try_parse_iso_date(messages[1][AppDateKeys[k]].str, call.basic)
                   ELSE try_parse_iso_date(TextOrMessage(messages[1]), call.basic)

\* the pages go on to the next of their keys when one does not parse: with
\* "date" unparseable and "message.date" an ISO timestamp, the date is that
\* of "message.date"
C26_PagesTryEachKey ==
    /\ messages # <<>>
    /\ call.kind = "message"
    /\ messages[1]["date"] \in {VAbsent, VNull, VStr(D_Word)}
    /\ messages[1]["message.date"] = VStr(D_IsoLater)
    => /\ ret.qualidade.outcome = "date" => ret.qualidade.date = <<2024, 1, 6>>
       /\ ret.padroes.outcome = "date" => ret.padroes.date = <<2024, 1, 6>>

\* the line s ends with the word t
EndsWith(s, t) == Len(s) >= Len(t) /\ SubSeq(s, Len(s) - Len(t) + 1, Len(s)) = t

\* the result the last word of a resolved line stands for
ResultWritten(s) ==
    IF EndsWith(s, W_WIN) THEN "WIN"
    ELSE IF EndsWith(s, W_Doji) THEN "DOJI"
    ELSE "LOSS"

\* C27: the result of a record is derived from the result word of the line
\* alone (DOJI stays DOJI, WIN stays WIN, anything else is LOSS) and never
\* from the check glyph: a line with the failure glyph that ends in WIN is a
\* WIN, in app.py, in the two-pass page extractor and in gestao_risco.
C27_ResultFromToken ==
    Len(messages) = 1 =>
        \A s \in {OneLine(messages[1].text)} :
            /\ \A k \in 1..Len(resolved) : resolved[k].result = ResultWritten(s)
            /\ \A k \in 1..Len(pg_records) : pg_records[k].result = ResultWritten(s)
            /\ \A k \in 1..Len(records) : records[k].result = ResultWritten(s)

C27_Witness ==
    /\ messages = <<[text |-> ResolvedLine("<fail>", <<>>, <<" ">>, W_EURUSD_OTC,
                                           Spaced, T_140500, W_M1, W_call, W_WIN)]>>
    /\ Len(resolved) = 1 /\ resolved[1].result = "WIN"
    /\ Len(pg_records) = 1 /\ pg_records[1].result = "WIN"
    /\ Len(records) = 1 /\ records[1].result = "WIN"

\* the draw glyph before LOSS and the success glyph before Doji are read by
\* the word as well
C27_WitnessDojiAfterSuccessGlyph ==
    /\ messages = <<[text |-> ResolvedLine("<ok>", <<>>, <<" ">>, W_EURUSD_OTC,
                                           Spaced, T_140500, W_M1, W_call, W_Doji)]>>
    /\ Len(resolved) = 1 /\ resolved[1].result = "DOJI"
    /\ Len(records) = 1 /\ records[1].result = "DOJI"

\* the band from the win rate (in hundredths of a percent) and the number of
\* trades alone
BandByWinRate(win_rate_pct, n) ==
    IF n < 5 THEN "SEM_DADOS"
    ELSE IF win_rate_pct >= 9000 THEN "EXCELENTE"
    ELSE IF win_rate_pct >= 8500 THEN "BOM"
    ELSE IF win_rate_pct >= 8000 THEN "OK"
    ELSE IF win_rate_pct >= 7500 THEN "REGULAR"
    ELSE "PERIGOSO"

\* C28: for every instrument with wins + losses > 0, win rate + volatility =
\* 100, so the volatility ceilings of _classify_pair never change the band:
\* the band is a function of win rate and trade count alone; an instrument
\* with at least 5 trades that are all DOJI gets win rate 0 and volatility 0
\* and is put in the worst band.
C28_BandFromWinRateAlone ==
    ret.page.outcome = "rendered" /\ ret.page.page = "Performance_Paridades" =>
        \A p \in DOMAIN ret.page.pair_analysis :
            /\ NumPair(pg_records, {"WIN", "LOSS"}, p) > 0 =>
                   ret.page.pair_analysis[p].Win_Rate_Pct
                       + ret.page.pair_analysis[p].Volatilidade_Pct = 10000
            /\ ret.page.pair_analysis[p].Classificacao
                   = BandByWinRate(ret.page.pair_analysis[p].Win_Rate_Pct,
                                   NumPair(pg_records, Results, p))
            /\ NumPair(pg_records, {"WIN", "LOSS"}, p) = 0
                   /\ NumPair(pg_records, {"DOJI"}, p) >= 5 =>
                   /\ ret.page.pair_analysis[p].Win_Rate_Pct = 0
                   /\ ret.page.pair_analysis[p].Volatilidade_Pct = 0
                   /\ ret.page.pair_analysis[p].Classificacao = "PERIGOSO"

C28_Witness ==
    /\ pc = "drawn"
    /\ ret.page.page = "Performance_Paridades"
    /\ ret.page.outcome = "rendered"
    /\ pg_records = Bucket(0, 0, 5)
    /\ ret.page.pair_analysis[W_EURUSD_OTC].Win_Rate_Pct = 0
    /\ ret.page.pair_analysis[W_EURUSD_OTC].Volatilidade_Pct = 0
    /\ ret.page.pair_analysis[W_EURUSD_OTC].Classificacao = "PERIGOSO"

\* 10 WINs and 1 LOSS: 90.91 and 9.09, the top band
C28_WitnessComplement ==
    /\ pc = "drawn"
    /\ ret.page.page = "Performance_Paridades"
    /\ ret.page.outcome = "rendered"
    /\ pg_records = Bucket(10, 1, 0)
    /\ ret.page.pair_analysis[W_EURUSD_OTC].Win_Rate_Pct = 9091
    /\ ret.page.pair_analysis[W_EURUSD_OTC].Volatilidade_Pct = 909
    /\ ret.page.pair_analysis[W_EURUSD_OTC].Classificacao = "EXCELENTE"

\* the product of two ratios
RatioTimes(x, y) == <<x[1] * y[1], x[2] * y[2]>>

\* x <= y for two ratios of positive denominator
RatioAtMost(x, y) == x[1] * y[2] <= y[1] * x[2]

\* the number of records of the list with a result in S
RECURSIVE NumIn(_, _)
NumIn(recs, S) ==
    IF recs = <<>> THEN 0
    ELSE NumIn(Tail(recs), S) + (IF Head(recs).result \in S THEN 1 ELSE 0)

\* C29: the loss rate of the loss-streak probabilities is 1 minus the win-rate
\* fraction: losses / (wins + losses) when wins + losses > 0, and 1 (every
\* probability 100%) when the records are all DOJI; the probabilities for
\* N = 2, 3, 4, 5 are loss rate ^ N x 100, lie in [0, 100] and do not
\* increase with N.
C29_LossStreakProbabilities ==
    ret.streak.outcome = "computed" =>
        /\ NumIn(records, {"WIN", "LOSS"}) > 0 =>
               RatioEq(ret.streak.loss_rate,
                       <<NumIn(records, {"LOSS"}), NumIn(records, {"WIN", "LOSS"})>>)
        /\ NumIn(records, {"WIN", "LOSS"}) = 0 =>
               /\ RatioEq(ret.streak.loss_rate, <<1, 1>>)
               /\ \A n \in 2..5 : RatioEq(ret.streak.prob_loss[n], <<100, 1>>)
        /\ RatioEq(ret.streak.prob_loss[2],
                   RatioTimes(<<100, 1>>,
                              RatioTimes(ret.streak.loss_rate, ret.streak.loss_rate)))
        /\ \A n \in 2..4 :
               RatioEq(ret.streak.prob_loss[n + 1],
                       RatioTimes(ret.streak.prob_loss[n], ret.streak.loss_rate))
        /\ \A n \in 2..5 :
               /\ RatioAtMost(ZeroRatio, ret.streak.prob_loss[n])
               /\ RatioAtMost(ret.streak.prob_loss[n], <<100, 1>>)
        /\ \A n \in 2..4 :
               RatioAtMost(ret.streak.prob_loss[n + 1], ret.streak.prob_loss[n])

C29_Witness ==
    /\ pc = "planned"
    /\ call.kind = "streak"
    /\ Len(records) = 2
    /\ \A k \in 1..Len(records) : records[k].result = "DOJI"
    /\ \A n \in 2..5 : RatioEq(ret.streak.prob_loss[n], <<100, 1>>)

\* one WIN and one LOSS: 25%, 12.5%, 6.25%, 3.125%
C29_WitnessHalf ==
    /\ pc = "planned"
    /\ call.kind = "streak"
    /\ NumIn(records, {"WIN"}) = 1 /\ NumIn(records, {"LOSS"}) = 1
    /\ RatioEq(ret.streak.prob_loss[2], <<25, 1>>)
    /\ RatioEq(ret.streak.prob_loss[5], <<3125, 1000>>)

\* the timestamps of the messages of a run of the dashboard
D_Dec20 == <<"2", "0", "2", "3", "-", "1", "2", "-", "2", "0", "T", "1", "0", ":", "0", "0", ":", "0", "0">>
D_Dec28 == <<"2", "0", "2", "3", "-", "1", "2", "-", "2", "8", "T", "1", "0", ":", "0", "0", ":", "0", "0">>

\* datetime.now().date(), the bounds of an export without dates
Today == <<2024, 1, 10>>

\* the messages of a run: dated 2023-12-20, 2023-12-28, 2024-01-05,
\* 2024-01-06, or without any timestamp key
RunMsgPool ==
    {DatedMsg(d, VAbsent, VAbsent, VAbsent) :
        d \in {VAbsent, VStr(D_Dec20), VStr(D_Dec28), VStr(D_IsoSeconds),
               VStr(D_IsoLater)}}

MaxRunMsgs == 2

\* a <= b for two dates
DateLeq(a, b) ==
    \/ a[1] < b[1]
    \/ a[1] = b[1] /\ a[2] < b[2]
    \/ a[1] = b[1] /\ a[2] = b[2] /\ a[3] <= b[3]

\* the day number of a date, counted from 1970-01-01
DaysFromCivil(date) ==
    LET y == IF date[2] <= 2 THEN date[1] - 1 ELSE date[1]
        mp == IF date[2] > 2 THEN date[2] - 3 ELSE date[2] + 9
        doy == (153 * mp + 2) \div 5 + date[3] - 1
        doe == (y % 400) * 365 + (y % 400) \div 4 - (y % 400) \div 100 + doy
    IN  (y \div 400) * 146097 + doe - 719468

\* date - timedelta(days=n)
MinusDays(date, n) == CivilFromDays(DaysFromCivil(date) - n)

\* the dates collected at the top of the script: the first key that is
\* present and not None is parsed, the text when there is no such key
all_dates(msgs, basic) ==
    {try_parse_iso_date(
         IF \E j \in 1..Len(AppDateKeys) : HasValue(msgs[k], AppDateKeys[j])
         THEN msgs[k][AppDateKeys[SetMin({j \in 1..Len(AppDateKeys) :
                                             HasValue(msgs[k], AppDateKeys[j])})]].str
         ELSE TextOrMessage(msgs[k]), basic) : k \in 1..Len(msgs)} \ {NoDate}

DateMin(S) == CHOOSE d \in S : \A x \in S : DateLeq(d, x)
DateMax(S) == CHOOSE d \in S : \A x \in S : DateLeq(x, d)

min_date(msgs, basic) ==
    IF all_dates(msgs, basic) = {} THEN Today ELSE DateMin(all_dates(msgs, basic))

max_date(msgs, basic) ==
    IF all_dates(msgs, basic) = {} THEN Today ELSE DateMax(all_dates(msgs, basic))

\* st.session_state.get(key, default): the value held, the default when the
\* key is not set
StateGet(held, default) == IF held = NoDate THEN default ELSE held

\* the messages whose date parses and lies in start..end
filter_messages(msgs, start, end, basic) ==
    SelectSeq(msgs,
              LAMBDA m : /\ app_msg_date(m, basic) # NoDate
                         /\ DateLeq(start, app_msg_date(m, basic))
                         /\ DateLeq(app_msg_date(m, basic), end))

\* the first filter: the bounds as held, the whole export when no message
\* has a date
first_filter(msgs, state, basic) ==
    IF all_dates(msgs, basic) = {} THEN msgs
    ELSE filter_messages(msgs, StateGet(state.start, min_date(msgs, basic)),
                         StateGet(state.end, max_date(msgs, basic)), basic)

\* the second filter: the bounds swapped when start is after end
second_filter(msgs, state, basic) ==
    IF DateLeq(StateGet(state.start, min_date(msgs, basic)),
               StateGet(state.end, max_date(msgs, basic)))
    THEN filter_messages(msgs, StateGet(state.start, min_date(msgs, basic)),
                         StateGet(state.end, max_date(msgs, basic)), basic)
    ELSE filter_messages(msgs, StateGet(state.end, max_date(msgs, basic)),
                         StateGet(state.start, min_date(msgs, basic)), basic)

\* the session state after the shortcut buttons of the sidebar
after_buttons(msgs, state, button, basic) ==
    CASE button = "7 dias" ->
             [start |-> MinusDays(max_date(msgs, basic), 6),
              end |-> max_date(msgs, basic)]
      [] button = "15 dias" ->
             [start |-> MinusDays(max_date(msgs, basic), 14),
              end |-> max_date(msgs, basic)]
      [] OTHER -> state

\* d lies in min_date..max_date, as st.date_input requires of its value
InRange(d, msgs, basic) ==
    DateLeq(min_date(msgs, basic), d) /\ DateLeq(d, max_date(msgs, basic))

\* the start and end dates a session can hold for the export: none, or a
\* date of the range of the two date inputs
HeldDates(msgs, basic) ==
    {NoDate} \cup {d \in {<<2023, 12, 20>>, <<2023, 12, 28>>, <<2024, 1, 5>>,
                          <<2024, 1, 6>>} : InRange(d, msgs, basic)}

InitRun ==
    /\ pc = "summary"
    /\ messages \in SeqsUpTo(RunMsgPool, MaxRunMsgs)
    /\ \E b \in BOOLEAN :
           call \in [kind : {"run"}, basic : {b}, button : {"none", "7 dias", "15 dias"},
                     start : HeldDates(messages, b), end : HeldDates(messages, b)]
    /\ ret = [summary |-> Pending, page |-> Pending]
    /\ idx = 1
    /\ signals = EmptyTable
    /\ resolved = <<>>
    /\ pg_signals = EmptyTable
    /\ pg_records = <<>>
    /\ records = <<>>
    /\ equity = <<>>
    /\ current = 0
    /\ total_profit = NotCalled
    /\ peak = 0
    /\ max_dd = 0
    /\ max_dd_pct = 0
    /\ min_balance = 0

\* the script down to build_resumo_params_from_json(data_filtrada)
RunBuildsSummary ==
    /\ pc = "summary"
    /\ ret' = [ret EXCEPT !.summary =
                  [outcome |-> "built",
                   messages |-> first_filter(messages, call, call.basic)]]
    /\ pc' = "sidebar"
    /\ UNCHANGED <<messages, idx, signals, resolved, pg_signals, pg_records, records,
                   equity, current, total_profit, peak, max_dd, max_dd_pct,
                   min_balance, call>>

\* the sidebar: a clicked shortcut button writes the session state, the two
\* date inputs take the held dates (the bounds of the export when none is
\* held) and keep them under their keys; a value outside min_date..max_date
\* ends the run in the exception of st.date_input; without dated messages
\* the sidebar shows no filter
RunSidebar ==
    /\ pc = "sidebar"
    /\ \E st \in {IF all_dates(messages, call.basic) = {} \/ call.button = "none"
                  THEN [start |-> call.start, end |-> call.end]
                  ELSE after_buttons(messages, call, call.button, call.basic)} :
           IF all_dates(messages, call.basic) = {}
           THEN /\ pc' = "filter"
                /\ call' = call
           ELSE IF /\ InRange(StateGet(st.start, min_date(messages, call.basic)),
                              messages, call.basic)
                   /\ InRange(StateGet(st.end, max_date(messages, call.basic)),
                              messages, call.basic)
           THEN /\ pc' = "filter"
                /\ call' = [call EXCEPT
                               !.start = StateGet(st.start,
                                                  min_date(messages, call.basic)),
                               !.end = StateGet(st.end, max_date(messages, call.basic))]
           ELSE /\ pc' = "stopped"
                /\ call' = [call EXCEPT !.start = st.start, !.end = st.end]
    /\ UNCHANGED <<messages, idx, signals, resolved, pg_signals, pg_records, records,
                   equity, current, total_profit, peak, max_dd, max_dd_pct,
                   min_balance, ret>>

\* the second filter and the page: every page but Resumo Executivo is given
\* the messages of the second filter
RunRendersPage ==
    /\ pc = "filter"
    /\ ret' = [ret EXCEPT !.page =
                  [outcome |-> "built",
                   messages |-> second_filter(messages, call, call.basic)]]
    /\ pc' = "shown"
    /\ UNCHANGED <<messages, idx, signals, resolved, pg_signals, pg_records, records,
                   equity, current, total_profit, peak, max_dd, max_dd_pct,
                   min_balance, call>>

NextRun ==
    \/ RunBuildsSummary
    \/ RunSidebar
    \/ RunRendersPage

SpecRun == InitRun /\ [][NextRun]_vars

\* C30: within one run the messages the summary of Resumo Executivo is built
\* from and the messages given to the other pages are filtered by the same
\* date range, for every start and end held in the session state, also when
\* start is after end and when a shortcut button changes the range during
\* the run.
C30_SameMessagesForSummaryAndPages ==
    pc = "shown" => ret.summary.messages = ret.page.messages

\* with dated messages, start not after end and no button clicked, the two
\* filters keep the same messages
C30_SameWhenOrderedAndUntouched ==
    /\ pc = "shown"
    /\ all_dates(messages, call.basic) # {}
    /\ call.button = "none"
    /\ DateLeq(call.start, call.end)
    => ret.summary.messages = ret.page.messages

\* the pages are given the messages dated between the two bounds held after
\* the sidebar, whichever is the earlier
C30_PagesGetSwappedRange ==
    pc = "shown" /\ all_dates(messages, call.basic) # {} =>
        \A k \in 1..Len(messages) :
            (\E j \in 1..Len(ret.page.messages) : ret.page.messages[j] = messages[k])
                <=> /\ app_msg_date(messages[k], call.basic) # NoDate
                    /\ \/ /\ DateLeq(call.start, app_msg_date(messages[k], call.basic))
                          /\ DateLeq(app_msg_date(messages[k], call.basic), call.end)
                       \/ /\ DateLeq(call.end, app_msg_date(messages[k], call.basic))
                          /\ DateLeq(app_msg_date(messages[k], call.basic), call.start)


\* start held after end: the summary is built from no message, the pages
\* from both
C30_SwappedBoundsCase ==
    /\ pc = "shown"
    /\ call.button = "none"
    /\ call.start = <<2024, 1, 6>> /\ call.end = <<2024, 1, 5>>
    /\ Len(messages) = 2
    /\ ret.summary.messages = <<>>
    /\ ret.page.messages = messages

\* the button "7 dias" clicked in the run: the summary is built from the
\* range held before, the pages from the last seven days
C30_ButtonCase ==
    /\ pc = "shown"
    /\ call.button = "7 dias"
    /\ ret.summary.messages = messages
    /\ Len(ret.page.messages) < Len(messages)

\* no message with a date: the summary is built from every message, the
\* pages from none
C30_UndatedExportCase ==
    /\ pc = "shown"
    /\ messages # <<>>
    /\ all_dates(messages, call.basic) = {}
    /\ ret.summary.messages = messages
    /\ ret.page.messages = <<>>
====
